---- MODULE Spec2Model ----
(***************************************************************************)
(* Model of the resume parser API:                                         *)
(*   - the Redis-backed daily quota counter and its administrative calls   *)
(*     (src/src/middleware/redisDailyRateLimit.middleware.ts),             *)
(*   - the template reconciler of BaseAIParser (src/unnamed/part_003),     *)
(*   - the extraction orchestrator and the route that leads to it          *)
(*     (src/src/services/ai/aiParserFactory.ts).                           *)
(***************************************************************************)
EXTENDS Integers, Sequences, FiniteSets, TLC

(***************************************************************************)
(* Bounds of the model.                                                    *)
(***************************************************************************)
NumCallers == 3
MaxRequests == 2
TicksPerDay == 2
MaxElems == 2

Callers == 1..NumCallers
Identities == {"u1", "u2"}
Days == {0, 1}
MaxTime == TicksPerDay
TzOffsets == {0, 1}

Min(a, b) == IF a <= b THEN a ELSE b
Max(a, b) == IF a >= b THEN a ELSE b

VARIABLES
  now,        \* the clock, in ticks since the start of UTC day 0
  tz,         \* the service's local time zone: local time = now + tz
  redisReady, \* RedisManager.isReady()
  count,      \* the store: key -> integer value, 0 when the key is absent
  expireAt,   \* the store: key -> absolute expiry time, 0 when it has none
  pc,         \* per caller: where its checkAndIncrement call stands
  user,       \* per caller: userKey of the call
  redisKey,   \* per caller: redisKey computed at the start of the call
  cur,        \* per caller: currentCount read by GET
  ttl,        \* per caller: the argument of EXPIRE queued in the MULTI
  res,        \* per caller: what checkAndIncrement returned
  http,       \* per caller: what the middleware did with the request
  lastCount,  \* what the last getCurrentCount returned
  \* history variables, written but never read by the actions
  d0,         \* per caller: the UTC day on which its call began
  failedAt,   \* per caller: where the store failed its call ("no" if nowhere)
  incd,       \* per caller: the store ran the call's INCR
  everDown,   \* the store has been unreachable at some point
  everReset,  \* resetUserLimit has deleted a key
  everExpired, \* a key was removed by its expiry
  \* the template reconciler
  tmpl,       \* customStructure, the template
  cand,       \* aiResponse, the candidate
  result,     \* what processCustomStructure returned
  rpc,        \* "idle", "called", "returned" or "raised"
  tmplAfter,  \* the template object after the call, Undefined before
  \* the service and the route POST /api/v1/resume/parse
  provider,   \* config.aiProvider
  apiKeyLen,  \* the length of the provider's API key
  hreq,       \* the last request that was passed on to the route (0: none)
  hpc,        \* where the request stands on the route
  file,       \* req.file
  reqStructure, \* req.customStructure
  text,       \* extractedText
  err,        \* the error thrown or handed to next(), Null when none
  parsedResume, \* what the service's parseResume returned
  response,   \* the response sent
  \* history variables, written but never read by the actions
  calls,      \* the steps of the service the request went through
  origin,     \* where the request's error was first raised
  origMsg,    \* the message of the error when it was first raised
  parsed,     \* what the model's answer parsed to, Undefined when nothing
  passes,     \* per caller: how often the request was passed on to the route
  \* the model gateway (the provider's parser that the service holds)
  googleAiModel, \* config.googleAiModel
  modelName,  \* this.modelName, the model that this.model stands for
  remote,     \* history: the models the gateway called for the request
  lastTest,   \* history: the last connection test and what became of it
  \* the administrative calls: history variables
  lastOp,     \* the last administrative call and what it returned
  lastReset   \* the last resetUserLimit that reached the store

quotaVars == <<now, tz, redisReady, count, expireAt, pc, user, redisKey, cur,
               ttl,
               res, http, lastCount, d0, failedAt, incd, everDown, everReset,
               everExpired>>

recVars == <<tmpl, cand, result, rpc, tmplAfter>>

httpVars == <<provider, apiKeyLen, hreq, hpc, file, reqStructure, text,
              err, parsedResume, response, calls, origin, origMsg, parsed, passes,
              googleAiModel, modelName, remote, lastTest>>

adminVars == <<lastOp, lastReset>>

vars == <<quotaVars, recVars, httpVars, adminVars>>

Keys == Identities \X Days

(***************************************************************************)
(* Time.  new Date().toISOString() is the UTC date; setHours(24,0,0,0) is  *)
(* the next midnight in the local time zone.  The clock is read at whole   *)
(* ticks.                                                                  *)
(***************************************************************************)
UtcDay(t) == t \div TicksPerDay

LocalTimeOfDay(t) == (t + tz) % TicksPerDay

\* the alternative without the date in the key
generateRedisKeyNoDay(userKey) == <<userKey, 0>>

generateRedisKey(userKey) == <<userKey, UtcDay(now)>>

getSecondsUntilMidnight == TicksPerDay - LocalTimeOfDay(now)

(***************************************************************************)
(* The results of checkAndIncrement and the middleware's reaction.         *)
(***************************************************************************)
NoResult == [kind |-> "none", allowed |-> FALSE, remaining |-> 0]

Result(a, r) == [kind |-> "ok", allowed |-> a, remaining |-> r]

NotReadyResult == Result(TRUE, MaxRequests - 1)

\* the fail-closed alternative to the catch block
CatchResultFailClosed == Result(FALSE, 0)

CatchResult == Result(TRUE, MaxRequests - 1)

DeniedResult == Result(FALSE, 0)

\* the alternative that decides on the incremented counter
ResultAfterIncrement(newCount) ==
  Result(newCount <= MaxRequests, Max(0, MaxRequests - newCount))

AllowedResult(newCount) == Result(TRUE, Max(0, MaxRequests - newCount))

LimitExceeded(currentCount) == currentCount >= MaxRequests

\* the alternative that lets every request through
MiddlewareAlwaysNext(r) == "next"

Middleware(r) ==
  IF r.kind = "throw" THEN "next"
  ELSE IF ~r.allowed THEN "429"
  ELSE "next"

(***************************************************************************)
(* The store's commands.                                                   *)
(***************************************************************************)
RedisGet(k) == count[k]

RedisIncr(cnt, k) == [cnt EXCEPT ![k] = @ + 1]

\* the alternative that sets no expiry
RedisExpireNothing(exp, k, seconds) == exp

RedisExpire(exp, k, seconds) == [exp EXCEPT ![k] = now + seconds]

\* the alternative that deletes nothing
RedisDelNothing(f, k) == f

RedisDel(f, k) == [f EXCEPT ![k] = 0]

Expired(k, t) == count[k] > 0 /\ expireAt[k] > 0 /\ expireAt[k] <= t

(***************************************************************************)
(* Init: nothing stored, no call in flight.                                *)
(***************************************************************************)
InitQuota ==
  /\ now = 0
  /\ tz \in TzOffsets
  /\ redisReady \in BOOLEAN
  /\ count = [k \in Keys |-> 0]
  /\ expireAt = [k \in Keys |-> 0]
  /\ pc = [c \in Callers |-> "idle"]
  /\ user = [c \in Callers |-> "u1"]
  /\ redisKey = [c \in Callers |-> <<"u1", 0>>]
  /\ cur = [c \in Callers |-> 0]
  /\ ttl = [c \in Callers |-> 0]
  /\ res = [c \in Callers |-> NoResult]
  /\ http = [c \in Callers |-> "none"]
  /\ lastCount = [user |-> "u1", day |-> 0, value |-> 0]
  /\ d0 = [c \in Callers |-> 0]
  /\ failedAt = [c \in Callers |-> "no"]
  /\ incd = [c \in Callers |-> FALSE]
  /\ everDown = ~redisReady
  /\ everReset = FALSE
  /\ everExpired = FALSE

clockVars == <<now, tz>>
connVars == <<redisReady, everDown>>
storeVars == <<count, expireAt, everReset, everExpired>>
callVars == <<pc, user, redisKey, cur, ttl, res, http, d0, failedAt, incd>>

(***************************************************************************)
(* One request: the middleware calls checkAndIncrement once.  One action   *)
(* per stretch of code between two awaits; the middleware's reaction to    *)
(* the returned value runs in the same stretch as the return.              *)
(***************************************************************************)
Finish(c, r, f) ==
  /\ res' = [res EXCEPT ![c] = r]
  /\ cur' = [cur EXCEPT ![c] = 0]
  /\ ttl' = [ttl EXCEPT ![c] = 0]
  /\ http' = [http EXCEPT ![c] = Middleware(r)]
  /\ failedAt' = [failedAt EXCEPT ![c] = f]
  /\ pc' = [pc EXCEPT ![c] = "done"]

\* lines 178-181, 48-64: the key, the isReady check, GET sent
Begin(c, u) ==
  /\ pc[c] = "idle"
  /\ \A b \in Callers : b < c => pc[b] # "idle"
  /\ user' = [user EXCEPT ![c] = u]
  /\ redisKey' = [redisKey EXCEPT ![c] = generateRedisKey(u)]
  /\ d0' = [d0 EXCEPT ![c] = UtcDay(now)]
  /\ IF ~redisReady
     THEN Finish(c, NotReadyResult, "isReady")
     ELSE /\ pc' = [pc EXCEPT ![c] = "get"]
          /\ UNCHANGED <<res, http, failedAt, cur, ttl>>
  /\ UNCHANGED <<recVars, httpVars, adminVars>>
  /\ UNCHANGED <<incd, lastCount, clockVars, connVars, storeVars>>

\* line 64: the store answers GET
StoreGet(c) ==
  /\ pc[c] = "get"
  /\ redisReady
  /\ cur' = [cur EXCEPT ![c] = RedisGet(redisKey[c])]
  /\ pc' = [pc EXCEPT ![c] = "gotten"]
  /\ UNCHANGED <<recVars, httpVars, adminVars>>
  /\ UNCHANGED <<user, redisKey, ttl, res, http, d0, failedAt, incd, lastCount,
                 clockVars, connVars, storeVars>>

\* line 64 rejects, lines 101-109
StoreGetFail(c) ==
  /\ pc[c] = "get"
  /\ ~redisReady
  /\ Finish(c, CatchResult, "get")
  /\ UNCHANGED <<recVars, httpVars, adminVars>>
  /\ UNCHANGED <<user, redisKey, d0, incd, lastCount, clockVars, connVars,
                 storeVars>>

\* lines 65-81: the comparison, the MULTI built and sent
AfterGet(c) ==
  /\ pc[c] = "gotten"
  /\ IF LimitExceeded(cur[c])
     THEN Finish(c, DeniedResult, "no")
     ELSE /\ ttl' = [ttl EXCEPT ![c] = getSecondsUntilMidnight]
          /\ pc' = [pc EXCEPT ![c] = "exec"]
          /\ UNCHANGED <<res, http, failedAt, cur>>
  /\ UNCHANGED <<recVars, httpVars, adminVars>>
  /\ UNCHANGED <<user, redisKey, d0, incd, lastCount, clockVars, connVars,
                 storeVars>>

\* line 81: the store runs INCR and EXPIRE as one transaction; lines 83-99
StoreExec(c) ==
  /\ pc[c] = "exec"
  /\ redisReady
  /\ count' = RedisIncr(count, redisKey[c])
  /\ expireAt' = RedisExpire(expireAt, redisKey[c], ttl[c])
  /\ incd' = [incd EXCEPT ![c] = TRUE]
  /\ Finish(c, AllowedResult(count'[redisKey[c]]), "no")
  /\ UNCHANGED <<recVars, httpVars, adminVars>>
  /\ UNCHANGED <<user, redisKey, d0, lastCount, everReset, everExpired,
                 clockVars, connVars>>

\* line 81 rejects (or answers with no results), lines 83-85, 101-109; the
\* transaction may or may not have run before the connection was lost
StoreExecFail(c) ==
  /\ pc[c] = "exec"
  /\ ~redisReady
  /\ \E applied \in BOOLEAN :
       /\ count' = IF applied THEN RedisIncr(count, redisKey[c]) ELSE count
       /\ expireAt' = IF applied THEN RedisExpire(expireAt, redisKey[c], ttl[c])
                      ELSE expireAt
       /\ incd' = [incd EXCEPT ![c] = applied]
  /\ Finish(c, CatchResult, "exec")
  /\ UNCHANGED <<recVars, httpVars, adminVars>>
  /\ UNCHANGED <<user, redisKey, d0, lastCount, everReset, everExpired,
                 clockVars, connVars>>

(***************************************************************************)
(* The auxiliary operations.                                               *)
(***************************************************************************)
\* lines 112-125
getCurrentCount(u) ==
  /\ lastCount' = [user |-> u, day |-> UtcDay(now),
                   value |-> IF redisReady THEN RedisGet(generateRedisKey(u))
                             ELSE 0]
  /\ UNCHANGED <<recVars, httpVars, adminVars>>
  /\ UNCHANGED <<callVars, clockVars, connVars, storeVars>>

\* lines 127-140
resetUserLimit(u) ==
  /\ redisReady
  /\ count[generateRedisKey(u)] > 0
  /\ count' = RedisDel(count, generateRedisKey(u))
  /\ expireAt' = RedisDel(expireAt, generateRedisKey(u))
  /\ everReset' = TRUE
  /\ UNCHANGED <<recVars, httpVars, adminVars>>
  /\ UNCHANGED <<everExpired, lastCount, callVars, clockVars, connVars>>

(***************************************************************************)
(* The environment: time passes (and the store drops the keys whose expiry *)
(* has come), the connection to the store is lost and comes back.          *)
(***************************************************************************)
Tick ==
  /\ now < MaxTime
  /\ now' = now + 1
  /\ count' = [k \in Keys |-> IF Expired(k, now + 1) THEN 0 ELSE count[k]]
  /\ expireAt' = [k \in Keys |-> IF Expired(k, now + 1) THEN 0 ELSE expireAt[k]]
  /\ everExpired' = (everExpired \/ \E k \in Keys : Expired(k, now + 1))
  /\ UNCHANGED <<recVars, httpVars, adminVars>>
  /\ UNCHANGED <<tz, everReset, lastCount, callVars, connVars>>

RedisDown ==
  /\ redisReady
  /\ redisReady' = FALSE
  /\ everDown' = TRUE
  /\ UNCHANGED <<recVars, httpVars, adminVars>>
  /\ UNCHANGED <<lastCount, callVars, clockVars, storeVars>>

RedisUp ==
  /\ ~redisReady
  /\ redisReady' = TRUE
  /\ UNCHANGED <<recVars, httpVars, adminVars>>
  /\ UNCHANGED <<everDown, lastCount, callVars, clockVars, storeVars>>

(***************************************************************************)
(* JSON values.  Keys are sequences of characters; an object is the        *)
(* sequence of its keys, in insertion order, and the sequence of values.   *)
(***************************************************************************)
Undefined == [t |-> "undefined"]
Null == [t |-> "null"]
Str(s) == [t |-> "string", s |-> s]
Num(n) == [t |-> "number", n |-> n]
Arr(es) == [t |-> "array", e |-> es]
Obj(ks, vs) == [t |-> "object", k |-> ks, v |-> vs]

\* the outcome of a call that threw a TypeError
Raised == [t |-> "raised"]

\* the characters of the strings that are used as values
Chars(s) ==
  CASE s = "" -> <<>>
    [] s = "A" -> <<"A">>
    [] s = "ab" -> <<"a", "b">>
    [] s = "Bob" -> <<"B", "o", "b">>
    [] s = "Jane" -> <<"J", "a", "n", "e">>
    [] s = "text" -> <<"t", "e", "x", "t">>
    [] s = "Python" -> <<"P", "y", "t", "h", "o", "n">>
    [] s = "Jane Doe" -> <<"J", "a", "n", "e", " ", "D", "o", "e">>
    [] s = "jane@x.com" -> <<"j", "a", "n", "e", "@", "x", ".", "c", "o", "m">>

IsString(x) == x.t = "string"

IsArray(x) == x.t = "array"
IsObject(x) == x.t = "object"
TypeofObject(x) == x.t \in {"object", "array", "null"}
Falsy(x) == \/ x.t \in {"null", "undefined"}
            \/ (x.t = "string" /\ x.s = "")
            \/ (x.t = "number" /\ x.n = 0)

Range(s) == {s[i] : i \in 1..Len(s)}
IndexOf(s, x) == CHOOSE i \in 1..Len(s) : s[i] = x

Digits == <<"0", "1", "2", "3", "4", "5", "6", "7", "8", "9">>
IndexKey(i) == <<Digits[i]>>
kLength == <<"l", "e", "n", "g", "t", "h">>
kHasOwnProperty ==
  <<"h", "a", "s", "O", "w", "n", "P", "r", "o", "p", "e", "r", "t", "y">>

\* the elements of an array, the characters of a string
Items(x) ==
  IF IsArray(x) THEN x.e
  ELSE [i \in 1..Len(Chars(x.s)) |-> Str(Chars(x.s)[i])]

\* Object.keys(x)
ObjectKeys(x) ==
  IF IsObject(x) THEN x.k
  ELSE IF IsArray(x) \/ IsString(x)
  THEN [i \in 1..Len(Items(x)) |-> IndexKey(i)]
  ELSE <<>>

\* x[key]
Get(x, key) ==
  IF IsObject(x)
  THEN IF key \in Range(x.k) THEN x.v[IndexOf(x.k, key)] ELSE Undefined
  ELSE IF IsArray(x) \/ IsString(x)
  THEN IF key = kLength THEN Num(Len(Items(x)))
       ELSE IF \E i \in 1..Len(Items(x)) : IndexKey(i) = key
            THEN Items(x)[CHOOSE i \in 1..Len(Items(x)) : IndexKey(i) = key]
            ELSE Undefined
  ELSE Undefined

\* x[key] = val in strict mode: a TypeError on a primitive; an error raised
\* while val was computed, or earlier, goes on
Set(x, key, val) ==
  IF x = Raised \/ val = Raised THEN Raised
  ELSE IF IsObject(x)
  THEN IF key \in Range(x.k)
       THEN [x EXCEPT !.v[IndexOf(x.k, key)] = val]
       ELSE [x EXCEPT !.k = Append(@, key), !.v = Append(@, val)]
  ELSE IF IsArray(x)
  THEN IF \E i \in 1..Len(x.e) : IndexKey(i) = key
       THEN [x EXCEPT !.e[CHOOSE i \in 1..Len(x.e) : IndexKey(i) = key] = val]
       ELSE x
  ELSE Raised

\* x.hasOwnProperty(key) is not callable: x has an own key of that name
\* (every value of which is a JSON value, not a function)
HasOwnPropertyShadowed(x) == IsObject(x) /\ kHasOwnProperty \in Range(x.k)

RECURSIVE deepClone(_)
deepClone(obj) ==
  IF IsArray(obj)
  THEN LET items == [i \in 1..Len(obj.e) |-> deepClone(obj.e[i])]
       IN IF Raised \in Range(items) THEN Raised ELSE Arr(items)
  ELSE IF IsObject(obj)
  THEN IF HasOwnPropertyShadowed(obj) THEN Raised
       ELSE LET cloned == [i \in 1..Len(obj.v) |-> deepClone(obj.v[i])]
            IN IF Raised \in Range(cloned) THEN Raised ELSE Obj(obj.k, cloned)
  ELSE obj

Upper == <<"A","B","C","D","E","F","G","H","I","J","K","L","M","N","O","P","Q","R","S","T","U","V","W","X","Y","Z">>
Lower == <<"a","b","c","d","e","f","g","h","i","j","k","l","m","n","o","p","q","r","s","t","u","v","w","x","y","z">>
toLowerCase(ch) == IF ch \in Range(Upper) THEN Lower[IndexOf(Upper, ch)] ELSE ch

\* the alternative that only lower-cases: key.toLowerCase()
NormalizeKeepsSeparators(key) == [i \in 1..Len(key) |-> toLowerCase(key[i])]

\* key.toLowerCase().replace(/[_-]/g, '')
RECURSIVE Normalize(_)
Normalize(key) ==
  IF key = <<>> THEN <<>>
  ELSE IF Head(key) \in {"_", "-"} THEN Normalize(Tail(key))
  ELSE <<toLowerCase(Head(key))>> \o Normalize(Tail(key))

\* a.includes(b)
Includes(a, b) ==
  \E i \in 0..(Len(a) - Len(b)) : SubSeq(a, i + 1, i + Len(b)) = b

NamesMatch(sourceKey, templateKey) ==
  LET ns == Normalize(sourceKey)
      nt == Normalize(templateKey)
  IN ns = nt \/ Includes(ns, nt) \/ Includes(nt, ns)

\* the alternative that takes every value for empty
isEmptyValueAlways(value, templateValue) == TRUE

isEmptyValue(value, templateValue) ==
  IF IsArray(templateValue) THEN ~IsArray(value) \/ Len(value.e) = 0
  ELSE IF TypeofObject(templateValue) /\ templateValue # Null THEN FALSE
  ELSE value = templateValue \/ value = Null \/ value = Undefined \/ value = Str("")

\* the alternative that goes on to the next template key when the one whose
\* name matches is filled
RECURSIVE FuzzyAssignSkipsFilled(_, _, _, _, _)
FuzzyAssignSkipsFilled(target, source, template, sourceKey, templateKeys) ==
  IF templateKeys = <<>> THEN target
  ELSE LET templateKey == Head(templateKeys) IN
    IF /\ NamesMatch(sourceKey, templateKey)
       /\ isEmptyValue(Get(target, templateKey), Get(template, templateKey))
    THEN Set(target, templateKey,
             IF IsArray(Get(template, templateKey))
                  /\ ~IsArray(Get(source, sourceKey))
             THEN Arr(<<Get(source, sourceKey)>>)
             ELSE Get(source, sourceKey))
    ELSE FuzzyAssignSkipsFilled(target, source, template, sourceKey,
                                Tail(templateKeys))

\* lines 178-194: the inner loop over the template keys, for one source key
RECURSIVE FuzzyAssign(_, _, _, _, _)
FuzzyAssign(target, source, template, sourceKey, templateKeys) ==
  IF templateKeys = <<>> THEN target
  ELSE LET templateKey == Head(templateKeys) IN
    IF NamesMatch(sourceKey, templateKey)
    THEN IF isEmptyValue(Get(target, templateKey), Get(template, templateKey))
         THEN IF IsArray(Get(template, templateKey))
              THEN Set(target, templateKey,
                       IF IsArray(Get(source, sourceKey)) THEN Get(source, sourceKey)
                       ELSE Arr(<<Get(source, sourceKey)>>))
              ELSE Set(target, templateKey, Get(source, sourceKey))
         ELSE target
    ELSE FuzzyAssign(target, source, template, sourceKey, Tail(templateKeys))

\* lines 171-195: the outer loop over the source keys
RECURSIVE FuzzyLoop(_, _, _, _)
FuzzyLoop(target, source, template, sourceKeys) ==
  IF sourceKeys = <<>> \/ target = Raised THEN target
  ELSE FuzzyLoop(
         IF Head(sourceKeys) \in Range(ObjectKeys(template)) THEN target
         ELSE FuzzyAssign(target, source, template, Head(sourceKeys),
                          ObjectKeys(template)),
         source, template, Tail(sourceKeys))

fuzzyMatchFields(target, source, template) ==
  FuzzyLoop(target, source, template, ObjectKeys(source))

RECURSIVE smartFillStructure(_, _, _)

\* the alternative that tests truthiness: sourceValue ? ... : ...
PresentTruthy(sourceValue) == ~Falsy(sourceValue)

\* the alternative that also copies a null: sourceValue !== undefined
PresentOrNull(sourceValue) == sourceValue # Undefined

\* sourceValue !== null && sourceValue !== undefined
Present(sourceValue) == sourceValue # Null /\ sourceValue # Undefined

\* lines 133-161: the body of the loop over the template keys
FillKey(target, source, template, key) ==
  LET templateValue == Get(template, key)
      sourceValue == Get(source, key)
  IN
  IF IsArray(templateValue)
  THEN IF IsArray(sourceValue)
       THEN Set(target, key, sourceValue)
       ELSE IF Len(templateValue.e) > 0 /\ TypeofObject(templateValue.e[1])
       THEN IF IsArray(sourceValue)
            THEN Set(target, key,
                     Arr([i \in 1..Len(sourceValue.e) |->
                            smartFillStructure(deepClone(templateValue.e[1]),
                                               sourceValue.e[i],
                                               templateValue.e[1])]))
            ELSE Set(target, key, Arr(<<>>))
       ELSE Set(target, key,
                IF IsArray(sourceValue) THEN sourceValue
                ELSE IF Present(sourceValue)
                     THEN Arr(<<sourceValue>>)
                     ELSE Arr(<<>>))
  ELSE IF TypeofObject(templateValue) /\ templateValue # Null
  THEN IF TypeofObject(sourceValue) /\ sourceValue # Null
       THEN Set(target, key,
                smartFillStructure(Get(target, key), sourceValue, templateValue))
       ELSE target
  ELSE IF Present(sourceValue)
       THEN Set(target, key, sourceValue)
       ELSE target

RECURSIVE FillKeys(_, _, _, _)
FillKeys(target, source, template, keys) ==
  IF keys = <<>> \/ target = Raised THEN target
  ELSE IF HasOwnPropertyShadowed(template) THEN Raised
  ELSE FillKeys(FillKey(target, source, template, Head(keys)),
                source, template, Tail(keys))

\* the alternative that returns at once on a source without keys
smartFillStructureSkipsEmptySource(target, source, template) ==
  IF Falsy(source) \/ ~TypeofObject(source) \/ ObjectKeys(source) = <<>>
  THEN target
  ELSE fuzzyMatchFields(
         FillKeys(target, source, template, ObjectKeys(template)),
         source, template)

\* lines 125-165
smartFillStructure(target, source, template) ==
  IF target = Raised \/ Falsy(source) \/ ~TypeofObject(source) THEN target
  ELSE fuzzyMatchFields(
         FillKeys(target, source, template, ObjectKeys(template)),
         source, template)

processCustomStructure(aiResponse, customStructure) ==
  IF Falsy(customStructure) THEN aiResponse
  ELSE smartFillStructure(deepClone(customStructure), aiResponse, customStructure)

(***************************************************************************)
(* The same call on objects with identity.  The heap is the sequence of    *)
(* the objects and arrays allocated so far; a value is a primitive or a    *)
(* reference to one of them, and an assignment target[key] = value changes *)
(* the object that target refers to, whoever else refers to it.  The       *)
(* templates run this way are objects without a key hasOwnProperty, on     *)
(* which no statement of the call throws.                                  *)
(***************************************************************************)
Ref(a) == [t |-> "ref", a |-> a]

IsRef(x) == x.t = "ref"

\* the object or array a reference refers to, a primitive itself
Node(h, x) == IF IsRef(x) THEN h[x.a] ELSE x

\* a new object or array
Alloc(h, node) == <<Append(h, node), Ref(Len(h) + 1)>>

\* JSON.parse: the value as a tree of new objects
RECURSIVE Load(_, _)
RECURSIVE LoadAll(_, _)
LoadAll(h, xs) ==
  IF xs = <<>> THEN <<h, <<>>>>
  ELSE LET first == Load(h, Head(xs))
           rest == LoadAll(first[1], Tail(xs))
       IN <<rest[1], <<first[2]>> \o rest[2]>>

Load(h, x) ==
  IF IsArray(x) THEN LET l == LoadAll(h, x.e) IN Alloc(l[1], Arr(l[2]))
  ELSE IF IsObject(x) THEN LET l == LoadAll(h, x.v) IN Alloc(l[1], Obj(x.k, l[2]))
  ELSE <<h, x>>

\* the JSON value that x stands for in heap h
RECURSIVE Deref(_, _)
Deref(h, x) ==
  IF ~IsRef(x) THEN x
  ELSE LET n == h[x.a] IN
    IF IsArray(n) THEN Arr([i \in 1..Len(n.e) |-> Deref(h, n.e[i])])
    ELSE Obj(n.k, [i \in 1..Len(n.v) |-> Deref(h, n.v[i])])

\* x[key]
GetRef(h, x, key) == Get(Node(h, x), key)

\* x[key] = val
SetRef(h, x, key, val) == [h EXCEPT ![x.a] = Set(@, key, val)]

\* x[key] = a new array of these elements
SetNewArray(h, x, key, es) ==
  LET new == Alloc(h, Arr(es)) IN SetRef(new[1], x, key, new[2])

\* the alternative that copies the top level only: {...obj}, [...obj]
shallowCloneRef(h, obj) == IF IsRef(obj) THEN Alloc(h, h[obj.a]) ELSE <<h, obj>>

\* deepClone, lines 102-123
RECURSIVE deepCloneRef(_, _)
RECURSIVE deepCloneAll(_, _)
deepCloneAll(h, xs) ==
  IF xs = <<>> THEN <<h, <<>>>>
  ELSE LET first == deepCloneRef(h, Head(xs))
           rest == deepCloneAll(first[1], Tail(xs))
       IN <<rest[1], <<first[2]>> \o rest[2]>>

deepCloneRef(h, obj) ==
  IF ~IsRef(obj) THEN <<h, obj>>
  ELSE LET n == h[obj.a] IN
    IF IsArray(n)
    THEN LET l == deepCloneAll(h, n.e) IN Alloc(l[1], Arr(l[2]))
    ELSE LET l == deepCloneAll(h, n.v) IN Alloc(l[1], Obj(n.k, l[2]))

\* fuzzyMatchFields, lines 178-194
RECURSIVE FuzzyAssignRef(_, _, _, _, _, _)
FuzzyAssignRef(h, target, source, template, sourceKey, templateKeys) ==
  IF templateKeys = <<>> THEN h
  ELSE LET templateKey == Head(templateKeys)
           sourceValue == GetRef(h, source, sourceKey)
       IN
    IF NamesMatch(sourceKey, templateKey)
    THEN IF isEmptyValue(Node(h, GetRef(h, target, templateKey)),
                         Node(h, GetRef(h, template, templateKey)))
         THEN IF /\ IsArray(Node(h, GetRef(h, template, templateKey)))
                 /\ ~IsArray(Node(h, sourceValue))
              THEN SetNewArray(h, target, templateKey, <<sourceValue>>)
              ELSE SetRef(h, target, templateKey, sourceValue)
         ELSE h
    ELSE FuzzyAssignRef(h, target, source, template, sourceKey,
                        Tail(templateKeys))

\* fuzzyMatchFields, lines 167-196
RECURSIVE FuzzyLoopRef(_, _, _, _, _)
FuzzyLoopRef(h, target, source, template, sourceKeys) ==
  IF sourceKeys = <<>> THEN h
  ELSE FuzzyLoopRef(
         IF Head(sourceKeys) \in Range(ObjectKeys(Node(h, template))) THEN h
         ELSE FuzzyAssignRef(h, target, source, template, Head(sourceKeys),
                             ObjectKeys(Node(h, template))),
         target, source, template, Tail(sourceKeys))

RECURSIVE smartFillStructureRef(_, _, _, _)

\* smartFillStructure, lines 133-161
FillKeyRef(h, target, source, template, key) ==
  LET templateValue == GetRef(h, template, key)
      sourceValue == GetRef(h, source, key)
      tv == Node(h, templateValue)
      sv == Node(h, sourceValue)
  IN
  IF IsArray(tv)
  THEN IF IsArray(sv) THEN SetRef(h, target, key, sourceValue)
       ELSE IF Len(tv.e) > 0 /\ TypeofObject(Node(h, tv.e[1]))
       THEN \* lines 140-145 are not reached: line 137 took the arrays
            SetNewArray(h, target, key, <<>>)
       ELSE IF Present(sv) THEN SetNewArray(h, target, key, <<sourceValue>>)
       ELSE SetNewArray(h, target, key, <<>>)
  ELSE IF TypeofObject(tv) /\ tv # Null
  THEN IF TypeofObject(sv) /\ sv # Null
       THEN smartFillStructureRef(h, GetRef(h, target, key), sourceValue,
                                  templateValue)
       ELSE h
  ELSE IF Present(sv) THEN SetRef(h, target, key, sourceValue)
       ELSE h

\* smartFillStructure, lines 130-162
RECURSIVE FillKeysRef(_, _, _, _, _)
FillKeysRef(h, target, source, template, keys) ==
  IF keys = <<>> THEN h
  ELSE FillKeysRef(FillKeyRef(h, target, source, template, Head(keys)),
                   target, source, template, Tail(keys))

\* smartFillStructure, lines 125-165
smartFillStructureRef(h, target, source, template) ==
  LET s == Node(h, source) IN
  IF Falsy(s) \/ ~TypeofObject(s) THEN h
  ELSE FuzzyLoopRef(
         FillKeysRef(h, target, source, template,
                     ObjectKeys(Node(h, template))),
         target, source, template, ObjectKeys(s))

\* processCustomStructure, lines 92-100: the heap and the returned value
processCustomStructureRef(h, aiResponse, customStructure) ==
  IF Falsy(Node(h, customStructure)) THEN <<h, aiResponse>>
  ELSE LET cloned == deepCloneRef(h, customStructure)
       IN <<smartFillStructureRef(cloned[1], cloned[2], aiResponse,
                                  customStructure),
            cloned[2]>>

(***************************************************************************)
(* The templates and candidates the reconciler is run on.                  *)
(***************************************************************************)
kFullName == <<"f", "u", "l", "l", "N", "a", "m", "e">>
kFull_name == <<"f", "u", "l", "l", "_", "n", "a", "m", "e">>
kName == <<"n", "a", "m", "e">>
kEmail == <<"e", "m", "a", "i", "l">>
kEmailCap == <<"E", "m", "a", "i", "l">>
kCompany == <<"c", "o", "m", "p", "a", "n", "y">>
kRole == <<"r", "o", "l", "e">>
kSkills == <<"s", "k", "i", "l", "l", "s">>

\* the sequences of one or two distinct keys of a set
KeyLists(keys) ==
  {<<a>> : a \in keys} \cup {p \in keys \X keys : p[1] # p[2]}

\* the objects with these keys and values from vals
ObjectsOver(keyLists, vals) ==
  UNION {{Obj(ks, vs) : vs \in [1..Len(ks) -> vals]} : ks \in keyLists}

\* n times the element e
Repeat(e, n) == [i \in 1..n |-> e]

EmptyObject == Obj(<<>>, <<>>)

RecordTemplate == Obj(<<kCompany, kRole>>, <<Str(""), Str("")>>)

TemplateKeyLists ==
  {<<kFullName>>, <<kName>>, <<kFullName, kEmail>>, <<kName, kFullName>>,
   <<kFullName, kName>>}

TemplateValues ==
  {Str(""), Null, Arr(<<>>), Arr(<<Str("")>>), Arr(<<RecordTemplate>>),
   Obj(<<kName>>, <<Str("")>>)}

SkillsTemplate == Obj(<<kSkills>>, <<Arr(<<>>)>>)

Templates == ObjectsOver(TemplateKeyLists, TemplateValues) \cup {SkillsTemplate}

CandidateKeys == {kFullName, kName, kFull_name, kEmailCap}

CandidateElems == {Str("A"), Obj(<<kCompany>>, <<Str("A")>>)}

CandidateValues ==
  {Null, Str(""), Str("Jane"), Obj(<<kName>>, <<Str("Bob")>>)}
    \cup {Arr(Repeat(e, n)) : e \in CandidateElems, n \in 0..MaxElems}

ExampleTemplate == Obj(<<kFullName, kEmail>>, <<Str(""), Str("")>>)

ExampleCandidate ==
  Obj(<<kFull_name, kEmailCap>>, <<Str("Jane Doe"), Str("jane@x.com")>>)

SkillsCandidates ==
  {Obj(<<kSkills>>, <<Str("Python")>>), Obj(<<kSkills>>, <<Null>>)}

Candidates ==
  {EmptyObject, Null, Str("text"), Arr(<<Str("A")>>), ExampleCandidate}
    \cup SkillsCandidates
    \cup ObjectsOver(KeyLists(CandidateKeys), CandidateValues)

(***************************************************************************)
(* The administrative handlers of RateLimitController, each with the       *)
(* method of RedisDailyRateLimitService that it calls.  The store's        *)
(* command is sent after isReady() was true; its answer may be lost with   *)
(* the connection, and then the command rejects.                           *)
(***************************************************************************)
\* what becomes of the call: isReady() false, the command rejects, or not
Outcome(lost) ==
  IF ~redisReady THEN "notReady" ELSE IF lost THEN "failed" ELSE "ok"

\* what a call returned: the count of getCurrentCount, the statistics of
\* getStats (nothing, for resetUserLimit)
Returns(n, keys) ==
  [value |-> n, totalKeys |-> Cardinality(keys),
   activeUsers |-> {k[1] : k \in keys}]

\* the callers whose INCR ran on a key of identity u
Incremented(u) == {c \in Callers : user[c] = u /\ incd[c]}

\* the record of an administrative call: what it returned, the keys whose
\* counter it changed, and whether it found the key of u as the last
\* resetUserLimit(u) that reached the store left it
Call(op, u, lost, returned) ==
  [op |-> op, user |-> u, outcome |-> Outcome(lost), raised |-> FALSE,
   returned |-> returned,
   changed |-> {k \in Keys : count'[k] # count[k]},
   fresh |-> u \in Identities /\ lastReset.user = u
               /\ lastReset.incd = Incremented(u)]

NoCall ==
  [op |-> "none", user |-> "none", outcome |-> "ok", raised |-> FALSE,
   returned |-> Returns(0, {}), changed |-> {}, fresh |-> FALSE]

NoReset == [user |-> "none", idle |-> {}, incd |-> {}]

InitAdmin ==
  /\ lastOp = NoCall
  /\ lastReset = NoReset

\* no request is in flight
Quiet == \A c \in Callers : pc[c] \in {"idle", "done"}

\* the connection is lost while the command is on its way
Lose(lost) ==
  /\ lost => redisReady
  /\ redisReady' = (redisReady /\ ~lost)
  /\ everDown' = (everDown \/ lost)

\* the alternative that answers with the stored value whatever happened
CountReadAlways(u, lost) == RedisGet(generateRedisKey(u))

\* getCurrentCount, lines 112-125: what it returns
CountRead(u, lost) ==
  IF Outcome(lost) = "ok" THEN RedisGet(generateRedisKey(u)) ELSE 0

\* rateLimit.controller.ts lines 9-42 and getCurrentCount
getStatus(u) ==
  /\ Quiet
  /\ UNCHANGED <<lastReset, lastCount, callVars, clockVars, storeVars,
                 recVars, httpVars>>
  /\ \E lost \in BOOLEAN :
       /\ Lose(lost)
       /\ lastOp' = Call("getCurrentCount", u, lost,
                         Returns(CountRead(u, lost), {}))

\* rateLimit.controller.ts lines 47-72 and resetUserLimit, lines 127-140; a
\* DEL that rejects may or may not have run before the connection was lost
resetLimit(u) ==
  /\ Quiet
  /\ \E lost \in BOOLEAN, applied \in BOOLEAN :
       /\ Lose(lost)
       /\ Outcome(lost) = "ok" => applied
       /\ Outcome(lost) = "notReady" => ~applied
       /\ count' = IF applied THEN RedisDel(count, generateRedisKey(u))
                   ELSE count
       /\ expireAt' = IF applied THEN RedisDel(expireAt, generateRedisKey(u))
                      ELSE expireAt
       /\ everReset' = (everReset \/ (applied /\ count[generateRedisKey(u)] > 0))
       /\ lastOp' = Call("resetUserLimit", u, lost, Returns(0, {}))
       /\ lastReset' = IF Outcome(lost) = "ok"
                       THEN [user |-> u,
                             idle |-> {c \in Callers : pc[c] = "idle"},
                             incd |-> Incremented(u)]
                       ELSE lastReset
  /\ UNCHANGED <<everExpired, lastCount, callVars, clockVars, recVars,
                 httpVars>>

\* redisClient.keys(pattern): the keys of today
KeysOfToday == {k \in Keys : k[2] = UtcDay(now) /\ count[k] > 0}

\* rateLimit.controller.ts lines 77-95 and getStats, lines 142-166
getStats ==
  /\ Quiet
  /\ UNCHANGED <<lastReset, lastCount, callVars, clockVars, storeVars,
                 recVars, httpVars>>
  /\ \E lost \in BOOLEAN :
       /\ Lose(lost)
       /\ lastOp' = Call("getStats", "none", lost,
                         Returns(0, IF Outcome(lost) = "ok" THEN KeysOfToday
                                    ELSE {}))

(***************************************************************************)
(* The extraction orchestrator (ResumeParserService.parseResume), the      *)
(* provider adapters' parseResume, and the route POST /api/v1/resume/parse *)
(* that leads to them: uploadMiddleware, validateFileUpload, the           *)
(* controller, errorHandler.                                               *)
(***************************************************************************)
Providers == {"google", "openai", "anthropic", "azure"}

MinKeyLength == 10
maxFileSize == 5242880

ApiKeyLengths == {MinKeyLength, MinKeyLength + 1}

\* the alternative that accepts every key that is not empty
isConfiguredAnyKey == apiKeyLen # 0

\* BaseAIParser.isConfigured
isConfigured == apiKeyLen # 0 /\ apiKeyLen > MinKeyLength

\* new Error(message) and createError(message, statusCode)
Error(message) ==
  [message |-> message, statusCode |-> Undefined, isOperational |-> FALSE]

createError(message, statusCode) ==
  [message |-> message, statusCode |-> Num(statusCode), isOperational |-> TRUE]

MsgNotConfigured ==
  "AI parser is not properly configured. Please check your API key."
MsgNoText ==
  "No text content found in the document. The file might be corrupted or empty."
MsgExtractFailed == "Failed to extract text from document"
MsgWrapPrefix == "Resume parsing failed: "
MsgInternal == "Internal server error"

\* what a provider's handleError returns when no pattern matches
FailedToParse(p) ==
  CASE p = "google" -> "Failed to parse resume with Google AI service."
    [] p = "openai" -> "Failed to parse resume with OpenAI service."
    [] p = "anthropic" -> "Failed to parse resume with Anthropic service."
    [] p = "azure" -> "Failed to parse resume with Azure OpenAI service."

\* every message a provider's handleError can return
HandleErrorMessages(p) ==
  {FailedToParse(p)} \cup
  CASE p = "google" ->
         {"Invalid Google AI API key. Please check your configuration.",
          "Google AI API access denied. Please check your API key permissions.",
          "Google AI quota exceeded. Please try again later.",
          "Google AI model not available. Please try again.",
          "Google AI rate limit exceeded. Please try again later."}
    [] p = "openai" ->
         {"Invalid OpenAI API key. Please check your configuration.",
          "OpenAI quota exceeded. Please check your billing.",
          "OpenAI rate limit exceeded. Please try again later."}
    [] p = "anthropic" ->
         {"Invalid Anthropic API key. Please check your configuration.",
          "Anthropic quota exceeded. Please check your billing.",
          "Anthropic rate limit exceeded. Please try again later."}
    [] p = "azure" ->
         {"Invalid Azure OpenAI API key. Please check your configuration.",
          "Azure OpenAI quota exceeded. Please check your billing.",
          "Azure OpenAI rate limit exceeded. Please try again later."}

\* the catch of ResumeParserService.parseResume: which errors go on as they
\* are
Rethrown(message) ==
  \/ Includes(message, "AI") \/ Includes(message, "Google")
  \/ Includes(message, "OpenAI") \/ Includes(message, "Anthropic")
  \/ Includes(message, "text content")

Whitespace == {" ", "\t", "\n"}

\* the alternative that trims nothing
TrimNothing(s) == s

\* s.trim()
RECURSIVE Trim(_)
Trim(s) ==
  IF Len(s) = 0 THEN s
  ELSE IF SubSeq(s, 1, 1) \in Whitespace THEN Trim(SubSeq(s, 2, Len(s)))
  ELSE IF SubSeq(s, Len(s), Len(s)) \in Whitespace
  THEN Trim(SubSeq(s, 1, Len(s) - 1))
  ELSE s

\* !extractedText || extractedText.trim().length === 0
NoTextContent(extractedText) ==
  extractedText = "" \/ Len(Trim(extractedText)) = 0

\* the uploaded file: multer's memoryStorage keeps it whole, so that the
\* length of its buffer is its size
NoFile == [mimetype |-> "", size |-> 0]
AllowedFileTypes ==
  {"application/pdf",
   "application/vnd.openxmlformats-officedocument.wordprocessingml.document",
   "text/plain"}
Upload(mimetype, size) == [mimetype |-> mimetype, size |-> size]
Uploads ==
  {NoFile, Upload("image/png", 1024), Upload("text/plain", 1024)}
    \cup {Upload("application/pdf", n) : n \in {0, 1024, maxFileSize + 1}}

\* the customStructure field of the form: absent, empty, a text that is not
\* JSON, or the JSON text of a value
JsonText(v) == [t |-> "text", ok |-> TRUE, json |-> v]
BadJson == [t |-> "text", ok |-> FALSE, json |-> Undefined]
ShadowTemplate == Obj(<<kHasOwnProperty>>, <<Str("")>>)
Fields ==
  {Undefined, BadJson, JsonText(Null), JsonText(ExampleTemplate),
   JsonText(ShadowTemplate)}

\* what the documents read as, and what the model's answers parse to
Texts == {"", "  ", "John Doe"}
ParsedValues == {ExampleCandidate, EmptyObject}

(***************************************************************************)
(* The model gateway: the calls of the remote model that a provider's      *)
(* parseResume makes.  ok[i] tells whether the i-th call of the model      *)
(* resolves.  this.model is set together with this.modelName (part_003     *)
(* lines 363-364 and 429-430), so that modelName stands for both.          *)
(***************************************************************************)
\* the values of config.googleAiModel tried: the default and two others
GoogleModels == {"gemini-2.0-flash", "gemini-1.0-pro", "gemini-1.5-pro"}

\* config.model || the provider's default
ConfiguredModel ==
  CASE provider = "google" -> googleAiModel
    [] provider = "openai" -> "gpt-4"
    [] provider = "anthropic" -> "claude-3-sonnet-20240229"
    [] provider = "azure" -> "gpt-4"

fallbackModels == <<"gemini-1.5-pro", "gemini-1.0-pro", "models/gemini-1.5-flash">>

Attempts == [1..(Len(fallbackModels) + 1) -> BOOLEAN]

\* one call of the remote model, and whether it resolved
ModelCall(m, r) == [model |-> m, resolved |-> r]

\* what the calls leave: this.modelName, the calls made in order, and
\* whether one of them resolved
Generated(name, called, resolved) ==
  [modelName |-> name, called |-> called, resolved |-> resolved]

\* part_003 lines 425-439: the loop, from the i-th fallback model on
RECURSIVE TryFallbacks(_, _, _, _)
TryFallbacks(i, name, called, ok) ==
  IF i > Len(fallbackModels) THEN Generated(name, called, FALSE)
  ELSE IF fallbackModels[i] # name
  THEN LET made == Append(called, ModelCall(fallbackModels[i], ok[Len(called) + 1]))
       IN IF ok[Len(called) + 1]
          THEN Generated(fallbackModels[i], made, TRUE)
          ELSE TryFallbacks(i + 1, fallbackModels[i], made, ok)
  ELSE TryFallbacks(i + 1, name, called, ok)

\* part_003 lines 416-443
tryGenerateContent(name, ok) ==
  IF ok[1] THEN Generated(name, <<ModelCall(name, TRUE)>>, TRUE)
  ELSE TryFallbacks(1, name, <<ModelCall(name, FALSE)>>, ok)

\* callOpenAI, callAnthropic, callAzureOpenAI: one fetch
callOnce(name, ok) == Generated(name, <<ModelCall(name, ok[1])>>, ok[1])

\* the alternative in which every provider goes through the fallback models
GenerateWithFallbacks(p, name, ok) == tryGenerateContent(name, ok)

\* the calls of the model in the provider's parseResume
Generate(p, name, ok) ==
  IF p = "google" THEN tryGenerateContent(name, ok) ELSE callOnce(name, ok)

\* GoogleAIParserService.handleError on an Error with this message
handleErrorGoogle(message) ==
  IF Includes(message, "API_KEY_INVALID") \/ Includes(message, "401")
  THEN "Invalid Google AI API key. Please check your configuration."
  ELSE IF Includes(message, "PERMISSION_DENIED") \/ Includes(message, "403")
  THEN "Google AI API access denied. Please check your API key permissions."
  ELSE IF Includes(message, "quota") \/ Includes(message, "QUOTA_EXCEEDED")
  THEN "Google AI quota exceeded. Please try again later."
  ELSE IF \/ Includes(message, "model") \/ Includes(message, "404")
          \/ Includes(message, "not found")
  THEN "Google AI model not available. Please try again."
  ELSE IF Includes(message, "RATE_LIMIT_EXCEEDED") \/ Includes(message, "429")
  THEN "Google AI rate limit exceeded. Please try again later."
  ELSE FailedToParse("google")

\* the messages of the error that parseResume throws when no call resolved:
\* Google's own error of line 441, for the others whatever fetch threw
CallFailedMessages(p) ==
  IF p = "google"
  THEN {handleErrorGoogle("All Google AI models failed. Please check your API key and internet connection.")}
  ELSE HandleErrorMessages(p)

\* a promise's end
Resolved(v) == [t |-> "resolved", value |-> v]
Rejected == [t |-> "rejected"]

\* the alternative without the catch
CatchFalseRethrows(o) == o

\* try { ... } catch (error) { return false }
CatchFalse(o) == IF o = Rejected THEN Resolved(FALSE) ELSE o

NoTest ==
  [op |-> "none", configured |-> FALSE, called |-> <<>>, completed |-> FALSE,
   outcome |-> Resolved(FALSE)]

NoResponse == [status |-> 0, success |-> FALSE, message |-> "", data |-> Undefined]

InitHttpIdle ==
  /\ hreq = 0
  /\ hpc = "idle"
  /\ file = NoFile
  /\ reqStructure = Undefined
  /\ text = ""
  /\ err = Null
  /\ parsedResume = Undefined
  /\ response = NoResponse
  /\ calls = <<>>
  /\ origin = "none"
  /\ origMsg = ""
  /\ parsed = Undefined
  /\ passes = [c \in Callers |-> 0]
  /\ modelName = ConfiguredModel
  /\ remote = <<>>
  /\ lastTest = NoTest

InitHttp ==
  /\ provider = "google"
  /\ apiKeyLen = MinKeyLength + 1
  /\ googleAiModel = "gemini-2.0-flash"
  /\ InitHttpIdle

requestVars == <<file, reqStructure, text, err, parsedResume, response, calls,
                 origin, origMsg, parsed>>
configVars == <<provider, apiKeyLen, googleAiModel>>
gatewayVars == <<modelName, remote, lastTest>>

\* part_001 lines 94-122: after the limiter's next() the request goes down the
\* middleware chain to the route
PassOn(c) ==
  /\ hpc = "idle"
  /\ pc[c] = "done"
  /\ http[c] = "next"
  /\ hreq < c
  /\ hreq' = c
  /\ hpc' = "upload"
  /\ passes' = [passes EXCEPT ![c] = @ + 1]
  /\ UNCHANGED <<requestVars, configVars, gatewayVars, quotaVars, recVars, adminVars>>

\* an error is handed to next(), or thrown out of a middleware
Fail(e, o) ==
  /\ err' = e
  /\ origin' = o
  /\ origMsg' = e.message
  /\ hpc' = "errorHandler"

\* part_006 lines 8-60
uploadMiddleware(f, field) ==
  /\ hpc = "upload"
  /\ IF f = NoFile
     THEN /\ Fail(createError("No file uploaded. Please provide a resume file.", 400), "noFile")
          /\ UNCHANGED <<file, reqStructure>>
     ELSE IF f.mimetype \notin AllowedFileTypes
     THEN /\ Fail(createError(("File type " \o f.mimetype \o " is not supported. Allowed types: application/pdf, application/vnd.openxmlformats-officedocument.wordprocessingml.document, text/plain"), 400), "fileType")
          /\ UNCHANGED <<file, reqStructure>>
     ELSE IF f.size > maxFileSize
     THEN /\ Fail(createError("File size exceeds limit of 5MB", 400), "fileSize")
          /\ UNCHANGED <<file, reqStructure>>
     ELSE /\ file' = f
          /\ IF Falsy(field)
             THEN /\ hpc' = "validate"
                  /\ UNCHANGED <<reqStructure, err, origin, origMsg>>
             ELSE IF ~field.ok
             THEN /\ Fail(createError("Invalid JSON format in customStructure field", 400), "customStructure")
                  /\ UNCHANGED reqStructure
             ELSE /\ reqStructure' = field.json
                  /\ hpc' = "validate"
                  /\ UNCHANGED <<err, origin, origMsg>>
  /\ UNCHANGED <<hreq, passes, text, parsedResume, response, calls, parsed,
                 configVars, gatewayVars, quotaVars, recVars, adminVars>>

\* part_006 lines 66-88
validateFileUpload ==
  /\ hpc = "validate"
  /\ IF file = NoFile
     THEN Fail(createError("No file uploaded. Please provide a resume file using one of these field names: resume, file, document, upload", 400), "noFile")
     ELSE IF file.mimetype \notin AllowedFileTypes
     THEN Fail(createError(("Invalid file type: " \o file.mimetype \o ". Please upload PDF, DOCX, or TXT files only."), 400), "fileType")
     ELSE IF file.size > maxFileSize
     THEN Fail(createError("File size (5.00MB) exceeds limit of 5MB", 400), "fileSize")
     ELSE /\ hpc' = "controller"
          /\ UNCHANGED <<err, origin, origMsg>>
  /\ UNCHANGED <<hreq, passes, file, reqStructure, text, parsedResume, response,
                 calls, parsed, configVars, gatewayVars, quotaVars, recVars, adminVars>>

\* ResumeController.parseResume up to the call of the service
Controller ==
  /\ hpc = "controller"
  /\ IF file = NoFile
     THEN Fail(createError("No file provided. Please upload a resume file.", 400), "noFile")
     ELSE IF file.size = 0
     THEN Fail(createError("File appears to be empty or corrupted.", 400), "emptyFile")
     ELSE /\ hpc' = "isConfigured"
          /\ UNCHANGED <<err, origin, origMsg>>
  /\ UNCHANGED <<hreq, passes, file, reqStructure, text, parsedResume, response,
                 calls, parsed, configVars, gatewayVars, quotaVars, recVars, adminVars>>

\* an error is thrown inside the try of ResumeParserService.parseResume
Throw(e, o) ==
  /\ err' = e
  /\ origin' = o
  /\ origMsg' = e.message
  /\ hpc' = "catch"

\* ResumeParserService.parseResume, lines 65-67
CheckConfigured ==
  /\ hpc = "isConfigured"
  /\ calls' = Append(calls, "isConfigured")
  /\ IF ~isConfigured
     THEN Throw(Error(MsgNotConfigured), "config")
     ELSE /\ hpc' = "extractText"
          /\ UNCHANGED <<err, origin, origMsg>>
  /\ UNCHANGED <<hreq, passes, file, reqStructure, text, parsedResume, response,
                 parsed, configVars, gatewayVars, quotaVars, recVars, adminVars>>

\* line 70 and DocumentProcessorService.extractText, lines 229-245: the text
\* of the document, or the one error that every failure is replaced by; a
\* text/plain buffer is decoded and cannot fail
ExtractText ==
  /\ hpc = "extractText"
  /\ calls' = Append(calls, "extractText")
  /\ \/ \E t \in Texts :
          /\ text' = t
          /\ hpc' = "emptyCheck"
          /\ UNCHANGED <<err, origin, origMsg>>
     \/ /\ file.mimetype # "text/plain"
        /\ Throw(Error(MsgExtractFailed), "extract")
        /\ UNCHANGED text
  /\ UNCHANGED <<hreq, passes, file, reqStructure, parsedResume, response,
                 parsed, configVars, gatewayVars, quotaVars, recVars, adminVars>>

\* lines 72-74
CheckText ==
  /\ hpc = "emptyCheck"
  /\ calls' = Append(calls, "emptyCheck")
  /\ IF NoTextContent(text)
     THEN Throw(Error(MsgNoText), "empty")
     ELSE /\ hpc' = "parseResume"
          /\ UNCHANGED <<err, origin, origMsg>>
  /\ UNCHANGED <<hreq, passes, file, reqStructure, text, parsedResume, response,
                 parsed, configVars, gatewayVars, quotaVars, recVars, adminVars>>

\* processResponse of the four providers: JSON.parse succeeded
processResponse(parsedData) ==
  IF ~Falsy(reqStructure)
  THEN processCustomStructure(parsedData, reqStructure)
  ELSE parsedData

\* line 87 and the provider's parseResume: the calls of the model; when none
\* resolved, or the answer cannot be read or is not JSON, handleError makes
\* the error; or the answer parses and processResponse returns, or throws
\* and handleError makes the error.  The text is not empty here (lines
\* 72-74), so that the provider's own check of the content passes.
AiParseResume ==
  /\ hpc = "parseResume"
  /\ calls' = Append(calls, "parseResume")
  /\ \E ok \in Attempts :
       LET g == Generate(provider, modelName, ok) IN
       /\ modelName' = g.modelName
       /\ remote' = remote \o g.called
       /\ IF ~g.resolved
          THEN /\ \E m \in CallFailedMessages(provider) :
                    Throw(Error(m), "provider")
               /\ UNCHANGED <<parsedResume, parsed>>
          ELSE \/ \E m \in HandleErrorMessages(provider) :
                    /\ Throw(Error(m), "provider")
                    /\ UNCHANGED <<parsedResume, parsed>>
               \/ \E parsedData \in ParsedValues :
                    /\ parsed' = parsedData
                    /\ IF processResponse(parsedData) = Raised
                       THEN /\ Throw(Error(FailedToParse(provider)), "provider")
                            /\ UNCHANGED parsedResume
                       ELSE /\ parsedResume' = processResponse(parsedData)
                            /\ hpc' = "resumed"
                            /\ UNCHANGED <<err, origin, origMsg>>
  /\ UNCHANGED <<hreq, passes, file, reqStructure, text, response, lastTest,
                 configVars, quotaVars, recVars, adminVars>>

\* lines 96-116
ServiceCatch ==
  /\ hpc = "catch"
  /\ err' = IF Rethrown(err.message) THEN err
            ELSE Error(MsgWrapPrefix \o err.message)
  /\ hpc' = "resumed"
  /\ UNCHANGED <<hreq, passes, file, reqStructure, text, parsedResume, response,
                 calls, origin, origMsg, parsed, configVars, gatewayVars, quotaVars,
                 recVars, adminVars>>

\* ResumeController.parseResume after the await: the answer, or next(error)
ControllerResume ==
  /\ hpc = "resumed"
  /\ IF err = Null
     THEN /\ response' = [status |-> 200, success |-> TRUE,
                          message |-> IF ~Falsy(reqStructure)
                                      THEN "Resume parsed successfully with custom structure"
                                      ELSE "Resume parsed successfully with default structure",
                          data |-> parsedResume]
          /\ hpc' = "responded"
     ELSE /\ hpc' = "errorHandler"
          /\ UNCHANGED response
  /\ UNCHANGED <<hreq, passes, file, reqStructure, text, err, parsedResume,
                 calls, origin, origMsg, parsed, configVars, gatewayVars, quotaVars,
                 recVars, adminVars>>

\* part_007 lines 10-36
errorHandler ==
  /\ hpc = "errorHandler"
  /\ response' = [status |-> IF err.statusCode = Undefined THEN 500
                             ELSE err.statusCode.n,
                  success |-> FALSE,
                  message |-> IF err.isOperational THEN err.message
                              ELSE MsgInternal,
                  data |-> Undefined]
  /\ hpc' = "responded"
  /\ UNCHANGED <<hreq, passes, file, reqStructure, text, err, parsedResume,
                 calls, origin, origMsg, parsed, configVars, gatewayVars, quotaVars,
                 recVars, adminVars>>

\* the response is sent; what belonged to the request is gone
Finished ==
  /\ hpc = "responded"
  /\ hpc' = "idle"
  /\ file' = NoFile
  /\ reqStructure' = Undefined
  /\ text' = ""
  /\ err' = Null
  /\ parsedResume' = Undefined
  /\ response' = NoResponse
  /\ calls' = <<>>
  /\ origin' = "none"
  /\ origMsg' = ""
  /\ parsed' = Undefined
  /\ remote' = <<>>
  /\ UNCHANGED <<hreq, passes, modelName, lastTest, configVars, quotaVars,
                 recVars, adminVars>>

\* ResumeParserService.testAIConnection, aiParserFactory.ts lines 123-136,
\* with the provider's parseResume on the test text and no template; json
\* tells whether the answer could be read and parsed
testAIConnection ==
  /\ hpc = "idle"
  /\ \E ok \in Attempts, json \in BOOLEAN :
       LET g == Generate(provider, modelName, ok)
           completed == g.resolved /\ json
           body == IF ~isConfigured THEN Resolved(FALSE)
                   ELSE IF completed THEN Resolved(TRUE)
                   ELSE Rejected
       IN /\ modelName' = IF isConfigured THEN g.modelName ELSE modelName
          /\ lastTest' = [op |-> "testAIConnection",
                          configured |-> isConfigured,
                          called |-> IF isConfigured THEN g.called ELSE <<>>,
                          completed |-> isConfigured /\ completed,
                          outcome |-> CatchFalse(body)]
  /\ UNCHANGED <<hreq, hpc, passes, remote, requestVars, configVars, quotaVars,
                 recVars, adminVars>>

\* the provider's testConnection (part_003 lines 270-279 and 400-414,
\* part_004 lines 61-70, anthropicParser.service.ts lines 57-66): one call
\* of the model; Google's answers true only if the text has 'ok' or 'status'
testConnection ==
  /\ hpc = "idle"
  /\ \E ok \in BOOLEAN, textOk \in BOOLEAN :
       LET body == IF ~ok THEN Rejected
                   ELSE Resolved(provider = "google" => textOk)
       IN lastTest' = [op |-> "testConnection",
                       configured |-> isConfigured,
                       called |-> <<ModelCall(modelName, ok)>>,
                       completed |-> ok,
                       outcome |-> CatchFalse(body)]
  /\ UNCHANGED <<hreq, hpc, passes, modelName, remote, requestVars, configVars,
                 quotaVars, recVars, adminVars>>

\* a request that the limiter let pass reaches the route
Arrive ==
  /\ hpc = "idle"
  /\ hpc' = "upload"
  /\ lastTest' = NoTest
  /\ UNCHANGED <<hreq, passes, modelName, remote, requestVars, configVars,
                 quotaVars, recVars, adminVars>>

(***************************************************************************)
(* The reconciler is a pure function of the template and the candidate:    *)
(* one call, on every template and candidate of the sets above.            *)
(***************************************************************************)
InitRecIdle ==
  /\ tmpl = EmptyObject
  /\ cand = EmptyObject
  /\ result = Undefined
  /\ rpc = "idle"
  /\ tmplAfter = Undefined

InitRec ==
  /\ InitQuota
  /\ tz = 0
  /\ redisReady
  /\ tmpl \in Templates
  /\ cand \in Candidates
  /\ result = Undefined
  /\ rpc = "called"
  /\ tmplAfter = Undefined
  /\ InitHttp
  /\ InitAdmin

Reconcile ==
  /\ rpc = "called"
  /\ result' = processCustomStructure(cand, tmpl)
  /\ rpc' = IF result' = Raised THEN "raised" ELSE "returned"
  /\ UNCHANGED <<tmpl, cand, tmplAfter>>
  /\ UNCHANGED <<quotaVars, httpVars, adminVars>>

NextRec == Reconcile

\* the same call on any JSON value as the template
ScalarCandidates == {Num(5), Str("")}

AnyTemplates ==
  {Null, Str(""), Str("ab"), Num(0), Num(5), Arr(<<>>), Arr(<<Str("")>>),
   Arr(<<RecordTemplate>>), Obj(<<kHasOwnProperty>>, <<Str("")>>)}
    \cup ObjectsOver({<<kName>>}, TemplateValues)

InitAny ==
  /\ InitQuota
  /\ tz = 0
  /\ redisReady
  /\ tmpl \in AnyTemplates
  /\ cand \in Candidates \cup ScalarCandidates
  /\ result = Undefined
  /\ rpc = "called"
  /\ tmplAfter = Undefined
  /\ InitHttp
  /\ InitAdmin

SpecAny == InitAny /\ [][NextRec]_vars

SpecRec == InitRec /\ [][NextRec]_vars

\* the same call on objects with identity
HeapValues ==
  {Null, Str("Jane"), Arr(<<Str("A")>>), Obj(<<kName>>, <<Str("Bob")>>)}

HeapCandidates ==
  ObjectsOver(KeyLists({kName, kFullName, kFull_name}), HeapValues)

InitHeap ==
  /\ InitQuota
  /\ tz = 0
  /\ redisReady
  /\ tmpl \in Templates
  /\ cand \in HeapCandidates
  /\ result = Undefined
  /\ rpc = "called"
  /\ tmplAfter = Undefined
  /\ InitHttp
  /\ InitAdmin

\* the template and the candidate are parsed into objects of their own, the
\* call runs, and the result and the template are read back
ReconcileByReference ==
  /\ rpc = "called"
  /\ LET t == Load(<<>>, tmpl)
         c == Load(t[1], cand)
         r == processCustomStructureRef(c[1], c[2], t[2])
     IN /\ result' = Deref(r[1], r[2])
        /\ tmplAfter' = Deref(r[1], t[2])
  /\ rpc' = "returned"
  /\ UNCHANGED <<tmpl, cand>>
  /\ UNCHANGED <<quotaVars, httpVars, adminVars>>

NextHeap == ReconcileByReference

SpecHeap == InitHeap /\ [][NextHeap]_vars

Init == InitQuota /\ InitRecIdle /\ InitHttp /\ InitAdmin

\* concurrent requests of one identity, time and the connection
Next ==
  \/ \E c \in Callers : Begin(c, "u1")
  \/ \E c \in Callers : StoreGet(c)
  \/ \E c \in Callers : StoreGetFail(c)
  \/ \E c \in Callers : AfterGet(c)
  \/ \E c \in Callers : StoreExec(c)
  \/ \E c \in Callers : StoreExecFail(c)
  \/ Tick
  \/ RedisDown
  \/ RedisUp

Spec == Init /\ [][Next]_vars

\* a sequential run: a request begins when no other is in flight
BeginSeq(c, u) ==
  /\ \A b \in Callers : pc[b] \in {"idle", "done"}
  /\ Begin(c, u)

NextSeq ==
  \/ \E c \in Callers : BeginSeq(c, "u1")
  \/ \E c \in Callers : StoreGet(c)
  \/ \E c \in Callers : StoreGetFail(c)
  \/ \E c \in Callers : AfterGet(c)
  \/ \E c \in Callers : StoreExec(c)
  \/ \E c \in Callers : StoreExecFail(c)
  \/ \E u \in Identities : getCurrentCount(u)
  \/ \E u \in Identities : resetUserLimit(u)
  \/ Tick
  \/ RedisDown
  \/ RedisUp

SpecSeq == Init /\ [][NextSeq]_vars

\* requests one after the other, each followed down the route
InitHttpAny ==
  /\ InitQuota
  /\ tz = 0
  /\ InitRecIdle
  /\ provider \in Providers
  /\ apiKeyLen \in ApiKeyLengths
  /\ googleAiModel = "gemini-2.0-flash"
  /\ InitHttpIdle
  /\ InitAdmin

BeginHttp(c) ==
  /\ hpc = "idle"
  /\ \A b \in Callers : http[b] = "next" => b <= hreq
  /\ BeginSeq(c, "u1")

\* the connection is lost or comes back between two requests, or while the
\* GET of one is on its way
BetweenSteps ==
  /\ hpc = "idle"
  /\ \A c \in Callers : pc[c] \in {"idle", "done", "get"}

NextHttp ==
  \/ \E c \in Callers : BeginHttp(c)
  \/ \E c \in Callers : StoreGet(c)
  \/ \E c \in Callers : StoreGetFail(c)
  \/ \E c \in Callers : AfterGet(c)
  \/ \E c \in Callers : StoreExec(c)
  \/ BetweenSteps /\ RedisDown
  \/ BetweenSteps /\ RedisUp
  \/ \E c \in Callers : PassOn(c)
  \/ \E f \in Uploads, field \in Fields : uploadMiddleware(f, field)
  \/ validateFileUpload
  \/ Controller
  \/ CheckConfigured
  \/ ExtractText
  \/ CheckText
  \/ AiParseResume
  \/ ServiceCatch
  \/ ControllerResume
  \/ errorHandler
  \/ Finished

SpecHttp == InitHttpAny /\ [][NextHttp]_vars

\* requests that reach the route one after the other, and the connection
\* tests between them, on a gateway with any configured model
InitGateway ==
  /\ InitQuota
  /\ tz = 0
  /\ redisReady
  /\ InitRecIdle
  /\ provider \in Providers
  /\ apiKeyLen \in ApiKeyLengths
  /\ googleAiModel \in GoogleModels
  /\ provider # "google" => googleAiModel = "gemini-2.0-flash"
  /\ InitHttpIdle
  /\ InitAdmin

NextGateway ==
  \/ Arrive
  \/ \E f \in Uploads, field \in Fields : uploadMiddleware(f, field)
  \/ validateFileUpload
  \/ Controller
  \/ CheckConfigured
  \/ ExtractText
  \/ CheckText
  \/ AiParseResume
  \/ ServiceCatch
  \/ ControllerResume
  \/ errorHandler
  \/ Finished
  \/ testAIConnection
  \/ testConnection

SpecGateway == InitGateway /\ [][NextGateway]_vars

\* requests of two identities one after the other, and the administrative
\* calls between them
InitAdminAny == Init /\ tz = 0

NextAdmin ==
  \/ \E c \in Callers, u \in Identities : BeginSeq(c, u)
  \/ \E c \in Callers : StoreGet(c)
  \/ \E c \in Callers : AfterGet(c)
  \/ \E c \in Callers : StoreExec(c)
  \/ \E u \in Identities : getStatus(u)
  \/ \E u \in Identities : resetLimit(u)
  \/ getStats
  \/ Quiet /\ RedisDown
  \/ Quiet /\ RedisUp

SpecAdmin == InitAdminAny /\ [][NextAdmin]_vars

(***************************************************************************)
(* What the history says about a (user, UTC day) pair.                     *)
(***************************************************************************)
CallsOn(g) == {c \in Callers : pc[c] # "idle" /\ <<user[c], d0[c]>> = g}

AllDoneOn(g) == \A c \in CallsOn(g) : pc[c] = "done"

AllowedOn(g) == {c \in CallsOn(g) : pc[c] = "done" /\ res[c].allowed}

IncrsOn(g) == {c \in CallsOn(g) : incd[c]}

\* requests begin in the order of their numbers
Idx(c) == Cardinality({b \in CallsOn(<<user[c], d0[c]>>) : b <= c})

(***************************************************************************)
(* The quota counter.                                                      *)
(***************************************************************************)
\* a run in which the store stayed reachable and no key was deleted or
\* expired
Undisturbed == ~everDown /\ ~everReset /\ ~everExpired

\* C1: of N concurrent calls on one identity and day, starting from an absent
\* key with the store reachable throughout, exactly min(N, max) return
\* allowed = true, under every interleaving.
C1_ExactlyMinAllowed ==
  \A g \in Keys :
    (Undisturbed /\ AllDoneOn(g))
      => Cardinality(AllowedOn(g)) = Min(Cardinality(CallsOn(g)), MaxRequests)

\* C2: with the store reachable, the stored counter of a key never exceeds
\* max, under every interleaving of concurrent calls.
C2_CounterAtMostMax ==
  ~everDown => \A k \in Keys : count[k] <= MaxRequests

\* C3: a call that found the store not ready, or whose GET or MULTI failed,
\* returns allowed = true with remaining = max - 1 (it returns, it does not
\* raise), and the middleware passes the request on.
C3_FailOpen ==
  \A c \in Callers :
    (pc[c] = "done" /\ failedAt[c] # "no")
      => /\ res[c] = Result(TRUE, MaxRequests - 1)
         /\ http[c] = "next"

\* three finished calls, one failed at each of the three places
C3_Witness ==
  \E a, b, c \in Callers :
    /\ pc[a] = "done" /\ failedAt[a] = "isReady" /\ http[a] = "next"
    /\ pc[b] = "done" /\ failedAt[b] = "get" /\ http[b] = "next"
    /\ pc[c] = "done" /\ failedAt[c] = "exec" /\ http[c] = "next"

\* C4: in a sequential run with the store reachable, the k-th call of an
\* identity on a day returns allowed = true with remaining = max - k for
\* k <= max, and allowed = false with remaining = 0 for k > max.
C4_SequentialQuota ==
  \A c \in Callers :
    (pc[c] = "done" /\ ~everDown /\ ~everReset /\ UtcDay(now) = d0[c])
      => res[c] = IF Idx(c) <= MaxRequests
                  THEN Result(TRUE, MaxRequests - Idx(c))
                  ELSE Result(FALSE, 0)

\* C5: calls on different days use different keys; the counter of a day's
\* key counts only increments of calls made on that day, and getCurrentCount
\* returns no more than that; the first call of a day is allowed with
\* remaining = max - 1.
C5_DayRollover ==
  /\ \A a, b \in Callers :
       (pc[a] # "idle" /\ pc[b] # "idle" /\ user[a] = user[b] /\ d0[a] # d0[b])
         => redisKey[a] # redisKey[b]
  /\ \A g \in Keys : count[g] <= Cardinality(IncrsOn(g))
  /\ lastCount.value
       <= Cardinality(IncrsOn(<<lastCount.user, lastCount.day>>))
  /\ \A c \in Callers :
       (pc[c] = "done" /\ Idx(c) = 1) => res[c] = Result(TRUE, MaxRequests - 1)

\* day 0's quota is exhausted and its key still stored when the first call
\* of day 1 is allowed and getCurrentCount reads day 1's counter
C5_Witness ==
  /\ count[<<"u1", 0>>] >= MaxRequests
  /\ UtcDay(now) = 1
  /\ lastCount = [user |-> "u1", day |-> 1, value |-> 1]
  /\ \E c \in Callers :
       /\ pc[c] = "done" /\ d0[c] = 1 /\ Idx(c) = 1 /\ incd[c]
       /\ res[c] = Result(TRUE, MaxRequests - 1)

(***************************************************************************)
(* The reconciler.                                                         *)
(***************************************************************************)
Returned == rpc = "returned"

\* R has the keys and nesting of T; the elements of an array that T
\* describes by a record template have the record template's shape
RECURSIVE HasShape(_, _)
HasShape(T, R) ==
  IF IsObject(T)
  THEN /\ IsObject(R)
       /\ Len(R.k) = Len(T.k)
       /\ Range(R.k) = Range(T.k)
       /\ \A i \in 1..Len(T.k) : HasShape(T.v[i], Get(R, T.k[i]))
  ELSE IF IsArray(T)
  THEN /\ IsArray(R)
       /\ (Len(T.e) > 0 /\ IsObject(T.e[1]))
            => \A i \in 1..Len(R.e) : HasShape(T.e[1], R.e[i])
  ELSE TRUE

\* C6: the result has exactly the template's key set and nesting at every
\* object level, and every element of an array described by a record
\* template has the record template's key set.
C6_ShapeInvariant == Returned => HasShape(tmpl, result)

\* T with every array-valued field, at any object nesting depth, emptied
RECURSIVE EmptyArrays(_)
EmptyArrays(T) ==
  IF IsObject(T) THEN Obj(T.k, [i \in 1..Len(T.v) |-> EmptyArrays(T.v[i])])
  ELSE IF IsArray(T) THEN Arr(<<>>)
  ELSE T

RECURSIVE JsonEq(_, _)
JsonEq(a, b) ==
  IF IsObject(a) /\ IsObject(b)
  THEN /\ Len(a.k) = Len(b.k)
       /\ Range(a.k) = Range(b.k)
       /\ \A i \in 1..Len(a.k) : JsonEq(a.v[i], Get(b, a.k[i]))
  ELSE IF IsArray(a) /\ IsArray(b)
  THEN /\ Len(a.e) = Len(b.e)
       /\ \A i \in 1..Len(a.e) : JsonEq(a.e[i], b.e[i])
  ELSE a = b

IsScalar(x) == x.t \in {"string", "number", "null"}

\* C has exactly T's shape: the same keys at every object level, an array
\* where T has an array, a scalar where T has a scalar leaf
RECURSIVE ExactShape(_, _)
ExactShape(T, C) ==
  IF IsObject(T)
  THEN /\ IsObject(C)
       /\ Len(C.k) = Len(T.k)
       /\ Range(C.k) = Range(T.k)
       /\ \A i \in 1..Len(T.k) : ExactShape(T.v[i], Get(C, T.k[i]))
  ELSE IF IsArray(T) THEN IsArray(C)
  ELSE IsScalar(C)

\* C has a null at a scalar leaf of T
RECURSIVE HasNullLeaf(_, _)
HasNullLeaf(T, C) ==
  IF IsObject(T)
  THEN \E i \in 1..Len(T.k) : HasNullLeaf(T.v[i], Get(C, T.k[i]))
  ELSE IF IsArray(T) THEN FALSE
  ELSE C = Null

\* C in T's key order, with T's placeholder where C has a null scalar leaf
RECURSIVE NullsDefaulted(_, _)
NullsDefaulted(T, C) ==
  IF IsObject(T)
  THEN Obj(T.k, [i \in 1..Len(T.k) |-> NullsDefaulted(T.v[i], Get(C, T.k[i]))])
  ELSE IF IsArray(T) THEN C
  ELSE IF C = Null THEN T ELSE C

\* C8, as stated: a candidate that has exactly the template's shape is
\* returned as it is, up to key ordering, whatever its leaves hold,
\* including null and the empty string.
C8_ExactShapeIdentity ==
  (Returned /\ ExactShape(tmpl, cand)) => JsonEq(result, cand)

\* C8, amended: a candidate that has exactly the template's shape is
\* returned as it is, up to key ordering, except that a null scalar leaf is
\* replaced by the template's placeholder; without null leaves the result
\* equals the candidate.
C8_ExactShapeNullsDefaulted ==
  (Returned /\ ExactShape(tmpl, cand))
    => /\ result = NullsDefaulted(tmpl, cand)
       /\ ~HasNullLeaf(tmpl, cand) => JsonEq(result, cand)

\* a candidate of the template's shape, keys in another order, with a null,
\* an empty string and an array
C8_Witness ==
  /\ Returned
  /\ ExactShape(tmpl, cand)
  /\ Len(tmpl.k) = 2
  /\ cand.k # tmpl.k
  /\ \E i \in 1..2 : tmpl.v[i] = Str("") /\ Get(cand, tmpl.k[i]) = Null
                     /\ Get(result, tmpl.k[i]) = Str("")
  /\ \E i \in 1..2 : IsArray(tmpl.v[i]) /\ Get(cand, tmpl.k[i]) = Arr(<<Str("A")>>)
                     /\ Get(result, tmpl.k[i]) = Arr(<<Str("A")>>)

\* the target after the structural pass, before the fuzzy pass
Structural == FillKeys(deepClone(tmpl), cand, tmpl, ObjectKeys(tmpl))

\* the value the fuzzy pass writes for candidate value v at a field whose
\* template value is tv
Wrapped(tv, v) == IF IsArray(tv) /\ ~IsArray(v) THEN Arr(<<v>>) ELSE v

\* the normalized names are equal, or one contains the other
NameRelated(sourceKey, templateKey) ==
  LET ns == Normalize(sourceKey)
      nt == Normalize(templateKey)
  IN ns = nt \/ Includes(ns, nt) \/ Includes(nt, ns)

\* the position of the first template key that is name-related to sourceKey,
\* 0 if there is none
FirstRelated(sourceKey) ==
  IF \E i \in 1..Len(tmpl.k) : NameRelated(sourceKey, tmpl.k[i])
  THEN CHOOSE i \in 1..Len(tmpl.k) :
         /\ NameRelated(sourceKey, tmpl.k[i])
         /\ \A j \in 1..(i - 1) : ~NameRelated(sourceKey, tmpl.k[j])
  ELSE 0

\* candidate key si is not a template key, its normalized name equals that
\* of template key ti, and the field is empty after the structural pass
FuzzyCase(si, ti) ==
  /\ cand.k[si] \notin Range(tmpl.k)
  /\ Normalize(cand.k[si]) = Normalize(tmpl.k[ti])
  /\ isEmptyValue(Get(Structural, tmpl.k[ti]), tmpl.v[ti])

ExampleResult ==
  Obj(<<kFullName, kEmail>>, <<Str("Jane Doe"), Str("jane@x.com")>>)

\* C9, as stated: a candidate key that is not a template key and whose
\* normalized name equals a template key's normalized name fills that field
\* when the field is empty after the structural pass; the example gives
\* {fullName: "Jane Doe", email: "jane@x.com"}.
C9_FuzzyFills ==
  /\ (Returned /\ IsObject(cand)) =>
       \A si \in 1..Len(cand.k) : \A ti \in 1..Len(tmpl.k) :
         FuzzyCase(si, ti)
           => Get(result, tmpl.k[ti]) = Wrapped(tmpl.v[ti], cand.v[si])
  /\ (Returned /\ tmpl = ExampleTemplate /\ cand = ExampleCandidate)
       => result = ExampleResult

\* C9, amended: such a candidate key fills that field when the field is empty
\* after the structural pass, provided the template key is the first one, in
\* template order, whose normalized name equals, contains or is contained in
\* the candidate key's, and is not also the first such template key of
\* another candidate key that is not a template key; the example gives
\* {fullName: "Jane Doe", email: "jane@x.com"}.
C9_FuzzyFillsFirstRelated ==
  /\ (Returned /\ IsObject(cand)) =>
       \A si \in 1..Len(cand.k) : \A ti \in 1..Len(tmpl.k) :
         ( /\ FuzzyCase(si, ti)
           /\ FirstRelated(cand.k[si]) = ti
           /\ \A sj \in 1..Len(cand.k) :
                (sj # si /\ cand.k[sj] \notin Range(tmpl.k))
                  => FirstRelated(cand.k[sj]) # ti )
           => Get(result, tmpl.k[ti]) = Wrapped(tmpl.v[ti], cand.v[si])
  /\ (Returned /\ tmpl = ExampleTemplate /\ cand = ExampleCandidate)
       => result = ExampleResult

\* the example has been reconciled
C9_Witness ==
  /\ Returned
  /\ tmpl = ExampleTemplate
  /\ cand = ExampleCandidate
  /\ FuzzyCase(1, 1) /\ FirstRelated(kFull_name) = 1
  /\ FuzzyCase(2, 2) /\ FirstRelated(kEmailCap) = 2
  /\ result = ExampleResult

IsRecordArray(x) == IsArray(x) /\ Len(x.e) = 1 /\ IsObject(x.e[1])

\* C10: when template[k] is a singleton array holding a record template and
\* candidate[k] is an array of n elements, result[k] has n elements and its
\* i-th element is the reconciliation of the i-th candidate element against
\* the record template.
C10_ElementsReconciled ==
  (Returned /\ IsObject(cand)) =>
    \A i \in 1..Len(tmpl.k) :
      LET tv == tmpl.v[i]
          cv == Get(cand, tmpl.k[i])
          rv == Get(result, tmpl.k[i])
      IN (IsRecordArray(tv) /\ IsArray(cv))
           => /\ IsArray(rv)
              /\ Len(rv.e) = Len(cv.e)
              /\ \A j \in 1..Len(cv.e) :
                   rv.e[j] = processCustomStructure(cv.e[j], tv.e[1])

\* the template value is an empty array or an array of scalars
IsScalarArray(tv) == IsArray(tv) /\ (Len(tv.e) = 0 \/ ~TypeofObject(tv.e[1]))

\* the examples of C11
SkillsExamples ==
  (Returned /\ tmpl = SkillsTemplate) =>
    /\ cand = Obj(<<kSkills>>, <<Str("Python")>>)
         => result = Obj(<<kSkills>>, <<Arr(<<Str("Python")>>)>>)
    /\ cand = Obj(<<kSkills>>, <<Null>>)
         => result = Obj(<<kSkills>>, <<Arr(<<>>)>>)

C12_NeverRaises == rpc # "raised"

(***************************************************************************)
(* The extraction orchestrator and the route.                              *)
(***************************************************************************)
\* the text has no character, or none but white space
BlankText(s) == \A i \in 1..Len(s) : SubSeq(s, i, i) \in Whitespace

\* extractText has returned a text to the orchestrator
Extracted == "extractText" \in Range(calls) /\ origin # "extract"

\* the orchestrator has returned to the controller, or raised
ServiceOver == hpc \in {"resumed", "errorHandler", "responded"}

\* C13: when text extraction returns an empty or whitespace-only string,
\* the orchestrator goes no further than its empty-text check: the
\* gateway's parseResume is not called for the request, and what the
\* orchestrator raises is the error 'No text content found in the document'.
C13_EmptyTextNoModelCall ==
  (Extracted /\ BlankText(text)) =>
     /\ "parseResume" \notin Range(calls)
     /\ hpc # "parseResume"
     /\ ServiceOver => err = Error(MsgNoText)

\* a whitespace-only text was extracted and the orchestrator has raised
C13_Witness ==
  /\ hpc = "resumed"
  /\ text = "  "
  /\ calls = <<"isConfigured", "extractText", "emptyCheck">>
  /\ err = Error(MsgNoText)

\* the steps of the orchestrator, in the order of the code
ServiceSteps == <<"isConfigured", "extractText", "emptyCheck", "parseResume">>

\* C14: the steps the orchestrator has gone through are always a prefix of
\* configuration check, extraction, empty-text check, model call; and when
\* the gateway is not configured the configuration check is the only step:
\* the orchestrator raises the error 'AI parser is not properly configured'
\* with no extraction and no model call.
C14_ConfigurationFirst ==
  /\ \E n \in 0..Len(ServiceSteps) : calls = SubSeq(ServiceSteps, 1, n)
  /\ (apiKeyLen <= MinKeyLength /\ calls # <<>>) =>
        /\ calls = <<"isConfigured">>
        /\ hpc \in {"catch", "resumed", "errorHandler", "responded"}
        /\ ServiceOver => err = Error(MsgNotConfigured)

\* the gateway is not configured and the orchestrator has raised
C14_Witness ==
  /\ ~isConfigured
  /\ hpc = "resumed"
  /\ calls = <<"isConfigured">>
  /\ err = Error(MsgNotConfigured)

\* C15: an error that a provider adapter raised, the empty-text error and
\* the document processor's extraction failure leave the orchestrator as
\* they were raised; an error of any other origin (the orchestrator's own
\* configuration error left aside) leaves it wrapped once, as
\* 'Resume parsing failed: <original message>'.
C15_ErrorsPassedOrWrapped ==
  (hpc = "resumed" /\ err # Null) =>
     /\ origin \in {"provider", "empty", "extract"} => err = Error(origMsg)
     /\ origin \notin {"provider", "empty", "extract", "config"} =>
           err = Error(MsgWrapPrefix \o origMsg)

\* C16: for each of the four providers, when the model's answer parses as
\* JSON, parseResume returns: the reconciliation of the parsed value against
\* the template when the request carried a template, the parsed value itself
\* when it carried none.
C16_ReconciledIffTemplate ==
  (hpc = "resumed" /\ parsed # Undefined) =>
     /\ err = Null
     /\ parsedResume = IF reqStructure = Undefined THEN parsed
                       ELSE processCustomStructure(parsed, reqStructure)

\* C17: a request that the quota counter denies is answered with 429 and is
\* not passed on to the route, so that the orchestrator never runs for it; a
\* request that is allowed, or that fails open, is passed on once, and has
\* been passed on by the time the next request arrives; the route and the
\* orchestrator run for a request only after its quota decision.
C17_QuotaBeforeRoute ==
  /\ \A c \in Callers :
       /\ (pc[c] = "done" /\ ~res[c].allowed) =>
             (http[c] = "429" /\ passes[c] = 0 /\ hreq # c)
       /\ passes[c] <= 1
       /\ passes[c] = 1 => (pc[c] = "done" /\ res[c].allowed /\ hreq >= c)
       /\ \A b \in Callers :
            (b < c /\ pc[c] # "idle" /\ res[b].allowed) => passes[b] = 1
  /\ (hpc # "idle" \/ calls # <<>>) =>
        (hreq \in Callers /\ pc[hreq] = "done" /\ res[hreq].allowed
           /\ passes[hreq] = 1)

\* two requests were allowed and passed on, one after the other, and a third
\* was denied and not passed on
C17_Witness ==
  \E a, b \in Callers :
    /\ pc[a] = "done" /\ res[a].allowed /\ failedAt[a] = "no" /\ passes[a] = 1
    /\ pc[b] = "done" /\ ~res[b].allowed /\ http[b] = "429" /\ passes[b] = 0
    /\ \E c \in Callers :
         pc[c] = "done" /\ failedAt[c] = "no" /\ c # a /\ passes[c] = 1

\* where the input errors of a request are raised: no file, a mime type that
\* is not supported, a customStructure that is not JSON, a document whose
\* text is empty, a document that cannot be read
InputErrorOrigins == {"noFile", "fileType", "customStructure", "empty", "extract"}

\* C20: the response to a request that failed with an input error has a 4xx
\* status and carries the message of that error (as it was raised, or
\* wrapped by the orchestrator), not the generic 'Internal server error'.
C20_InputErrorsAreCallerFaults ==
  (hpc = "responded" /\ origin \in InputErrorOrigins) =>
     /\ response.status \in 400..499
     /\ response.message \in {origMsg, MsgWrapPrefix \o origMsg}
     /\ response.message # MsgInternal

(***************************************************************************)
(* The administrative calls.                                               *)
(***************************************************************************)
\* no INCR has run on a key of identity u since the last resetUserLimit(u)
\* that reached the store
FreshlyReset(u) == lastReset.user = u /\ lastReset.incd = Incremented(u)

\* C18: a resetUserLimit(identity) that reaches the store changes no counter
\* but that of the identity's current-day key, and leaves that key absent:
\* until the next INCR on it, getCurrentCount(identity) returns 0, and the
\* next checkAndIncrement(identity, max), if the store answers it, is
\* allowed with remaining = max - 1.
C18_ResetClearsKey ==
  /\ (lastOp.op = "resetUserLimit" /\ lastOp.outcome = "ok") =>
        lastOp.changed \subseteq {generateRedisKey(lastOp.user)}
  /\ \A u \in Identities :
       FreshlyReset(u) =>
          (count[generateRedisKey(u)] = 0 /\ expireAt[generateRedisKey(u)] = 0)
  /\ (lastOp.op = "getCurrentCount" /\ lastOp.outcome = "ok" /\ lastOp.fresh)
        => lastOp.returned.value = 0
  /\ \A c \in Callers :
       (/\ lastReset.user = user[c]
        /\ c \in lastReset.idle
        /\ pc[c] = "done"
        /\ failedAt[c] = "no"
        /\ lastReset.incd = Incremented(user[c]) \ {c})
       => res[c] = Result(TRUE, MaxRequests - 1)

\* identity u1 had used a request and u2 has a counter; u1 was reset, and
\* its next request was allowed with remaining = max - 1
C18_Witness ==
  \E c \in Callers :
    /\ lastReset.user = "u1"
    /\ lastReset.incd # {}
    /\ c \in lastReset.idle
    /\ user[c] = "u1"
    /\ pc[c] = "done"
    /\ res[c] = Result(TRUE, MaxRequests - 1)
    /\ count[generateRedisKey("u2")] > 0

\* the last administrative call found the store unreachable, or its command
\* rejected
Swallowed == lastOp.op # "none" /\ lastOp.outcome \in {"notReady", "failed"}

\* C19: when the store is unreachable or the store's command fails,
\* getCurrentCount returns 0, getStats returns {totalKeys: 0, activeUsers: []}
\* and resetUserLimit returns; none of the three raises and none changes a
\* counter.
C19_FailuresSwallowed ==
  Swallowed =>
     /\ ~lastOp.raised
     /\ lastOp.returned = Returns(0, {})
     /\ lastOp.changed = {}

\* C19, amended: as stated, but a resetUserLimit whose DEL rejects may have
\* deleted the current-day key of its identity (and no other key): the
\* command may have run before the connection was lost.
C19_FailuresSwallowedDelMayRun ==
  Swallowed =>
     /\ ~lastOp.raised
     /\ lastOp.returned = Returns(0, {})
     /\ IF lastOp.op = "resetUserLimit" /\ lastOp.outcome = "failed"
        THEN lastOp.changed \subseteq {generateRedisKey(lastOp.user)}
        ELSE lastOp.changed = {}

\* a resetUserLimit whose DEL rejected returned without raising, and the key
\* of its identity, which held a count, is gone
C19_Witness ==
  /\ lastOp.op = "resetUserLimit"
  /\ lastOp.outcome = "failed"
  /\ ~lastOp.raised
  /\ lastOp.changed = {generateRedisKey(lastOp.user)}
  /\ count[generateRedisKey(lastOp.user)] = 0

(***************************************************************************)
(* The day of a key and the instant of its expiry.                         *)
(***************************************************************************)
\* the calendar day in the service's local time zone
LocalDay(t) == (t + tz) \div TicksPerDay

\* the first instant after the day of key k
EndOfKeyDay(k) == (k[2] + 1) * TicksPerDay

\* C22: the day of a quota key is the local calendar day at the moment of
\* the call, so the key changes at local midnight, the instant at which the
\* key expires; no stored counter expires while the day of its key is still
\* current.
C22_KeyDayIsLocalDay ==
  /\ generateRedisKey("u1")[2] = LocalDay(now)
  /\ \A k \in Keys :
       (count[k] > 0 /\ expireAt[k] > 0) => expireAt[k] >= EndOfKeyDay(k)

\* C23: the increment of a counter and the setting of its expiry are one
\* step: every step that increments the counter of a key sets the expiry of
\* that key to a later instant in the same step, and in every reachable
\* state every stored quota key carries an expiry.
C23_IncrementWithExpiry ==
  /\ [](\A k \in Keys : count[k] > 0 => expireAt[k] > 0)
  /\ [][\A k \in Keys :
          count'[k] > count[k]
            => /\ count'[k] = count[k] + 1
               /\ expireAt'[k] > now
               /\ \E c \in Callers :
                    /\ pc[c] = "exec" /\ redisKey[c] = k /\ incd'[c]
                    /\ expireAt'[k] = now + ttl[c]]_vars

\* two calls have incremented the same key, which carries an expiry, while
\* the MULTI of a third call on that key is on its way
C23_Witness ==
  \E a, b, c \in Callers :
    /\ a # b /\ incd[a] /\ incd[b] /\ redisKey[a] = redisKey[b]
    /\ count[redisKey[a]] = 2 /\ expireAt[redisKey[a]] > now
    /\ pc[c] = "exec" /\ redisKey[c] = redisKey[a]

\* a call returned allowed = false
Denied(r) == r.kind = "ok" /\ ~r.allowed

\* C30: a call that is denied because its GET found the counter at or above
\* max performs no increment and no expiry change: the store never ran an
\* INCR for it, and the step in which it returns leaves every counter and
\* every expiry as they were.
C30_DeniedChangesNothing ==
  /\ [](\A c \in Callers : (pc[c] = "done" /\ Denied(res[c])) => ~incd[c])
  /\ [][\A c \in Callers :
          (pc[c] # "done" /\ pc'[c] = "done" /\ Denied(res'[c]))
            => /\ LimitExceeded(cur[c])
               /\ count' = count
               /\ expireAt' = expireAt]_vars

\* a call was denied on a key whose counter stands at max with its expiry
\* still ahead, after the calls that filled the quota
C30_Witness ==
  \E c \in Callers :
    /\ pc[c] = "done" /\ Denied(res[c]) /\ ~incd[c]
    /\ count[redisKey[c]] = MaxRequests
    /\ expireAt[redisKey[c]] > now
    /\ Cardinality(IncrsOn(redisKey[c])) = MaxRequests

(***************************************************************************)
(* The fuzzy pass.                                                         *)
(***************************************************************************)
\* both passes run: the candidate is an object or an array
PassesRun == Returned /\ TypeofObject(cand) /\ ~Falsy(cand)

\* the emptiness rule: value v at a field whose template value is tv
EmptyByRule(v, tv) ==
  IF IsArray(tv) THEN ~(IsArray(v) /\ Len(v.e) > 0)
  ELSE IF IsObject(tv) THEN FALSE
  ELSE v \in {tv, Null, Undefined, Str("")}

\* C24: the fuzzy pass changes the value of a template key only if the value
\* after the structural pass is empty by the emptiness rule: not a non-empty
\* array at an array field, nothing at an object field, and at a scalar field
\* only the template's placeholder, null, undefined or the empty string; a
\* non-empty value that the structural pass copied from the candidate's key
\* of the same name is the value of the result.
C24_FuzzyWritesOnlyEmpty ==
  PassesRun =>
    \A ti \in 1..Len(tmpl.k) :
      LET before == Get(Structural, tmpl.k[ti])
          after == Get(result, tmpl.k[ti])
      IN /\ after # before => EmptyByRule(before, tmpl.v[ti])
         /\ (/\ tmpl.k[ti] \in Range(ObjectKeys(cand))
             /\ ~IsObject(tmpl.v[ti])
             /\ ~EmptyByRule(Get(cand, tmpl.k[ti]), tmpl.v[ti]))
              => after = Get(cand, tmpl.k[ti])

\* a scalar field was filled by the structural pass from the candidate's key
\* of the same name, and another candidate key, which is not a template key
\* and whose first name-related template key is that field, carries another
\* value: the result has the value of the structural pass
C24_Witness ==
  /\ PassesRun /\ IsObject(cand)
  /\ \E ti \in 1..Len(tmpl.k) : \E si \in 1..Len(cand.k) :
       /\ tmpl.v[ti] = Str("")
       /\ Get(cand, tmpl.k[ti]) = Str("Jane")
       /\ Get(Structural, tmpl.k[ti]) = Str("Jane")
       /\ cand.k[si] \notin Range(tmpl.k)
       /\ FirstRelated(cand.k[si]) = ti
       /\ cand.v[si] \notin {Str("Jane"), Null, Str("")}
       /\ Get(result, tmpl.k[ti]) = Str("Jane")

\* the candidate keys that are not template keys
Unmatched == {si \in 1..Len(cand.k) : cand.k[si] \notin Range(tmpl.k)}

\* the first template key, in template order, that is name-related to
\* sourceKey and empty after the structural pass, 0 if there is none
FirstRelatedEmpty(sourceKey) ==
  LET ok(i) == /\ NameRelated(sourceKey, tmpl.k[i])
               /\ EmptyByRule(Get(Structural, tmpl.k[i]), tmpl.v[i])
  IN IF \E i \in 1..Len(tmpl.k) : ok(i)
     THEN CHOOSE i \in 1..Len(tmpl.k) : ok(i) /\ \A j \in 1..(i - 1) : ~ok(j)
     ELSE 0

\* C25, as stated: the value of a candidate key that is not a template key
\* goes to the first template key, in template order, that is name-related
\* to it and still empty, also when an earlier name-related template key is
\* filled (here: when no other such candidate key is name-related to any
\* template key, so that the values of the structural pass are the current
\* ones), and to no other template key.
C25_FirstEmptyMatchFilled ==
  (PassesRun /\ IsObject(cand)) =>
    \A si \in Unmatched :
      (\A sj \in Unmatched \ {si} : FirstRelated(cand.k[sj]) = 0)
        => \A ti \in 1..Len(tmpl.k) :
             Get(result, tmpl.k[ti])
               = IF ti = FirstRelatedEmpty(cand.k[si])
                 THEN Wrapped(tmpl.v[ti], cand.v[si])
                 ELSE Get(Structural, tmpl.k[ti])

\* C25, amended: the value of a candidate key that is not a template key
\* goes to no template key other than the first one, in template order, that
\* is name-related to it, and to that one only if it is still empty: a
\* template key that the fuzzy pass changed holds the value of such a
\* candidate key whose first name-related template key it is, a template key
\* that is empty after the structural pass and is the first name-related one
\* of some such candidate key holds the value of one of them, and a template
\* key that is the first name-related one of no such candidate key keeps the
\* value of the structural pass, empty or not.
C25_FirstMatchOnly ==
  (PassesRun /\ IsObject(cand)) =>
    LET first == [si \in Unmatched |-> FirstRelated(cand.k[si])]
        structural == Structural
    IN \A ti \in 1..Len(tmpl.k) :
         LET before == Get(structural, tmpl.k[ti])
             after == Get(result, tmpl.k[ti])
             from == {si \in Unmatched : first[si] = ti}
             filled == \E si \in from : after = Wrapped(tmpl.v[ti], cand.v[si])
         IN /\ after # before => filled
            /\ (from # {} /\ EmptyByRule(before, tmpl.v[ti])) => filled
            /\ from = {} => after = before

\* the candidate key full_name is name-related to the template keys name and
\* fullName; name, the first, was filled by the structural pass, and
\* fullName, which is empty, is left as it was
C25_Witness ==
  /\ PassesRun
  /\ tmpl = Obj(<<kName, kFullName>>, <<Str(""), Str("")>>)
  /\ cand = Obj(<<kName, kFull_name>>, <<Str("Jane"), Arr(<<Str("A")>>)>>)
  /\ FirstRelated(kFull_name) = 1
  /\ FirstRelatedEmpty(kFull_name) = 2
  /\ result = Obj(<<kName, kFullName>>, <<Str("Jane"), Str("")>>)

(***************************************************************************)
(* The template object.                                                    *)
(***************************************************************************)
\* C29: reconciliation does not modify the template it is given: when
\* processCustomStructure has returned, the template object has, at every
\* level, the value it had before the call, for every candidate.
C29_TemplateUnchanged == Returned => tmplAfter = tmpl

\* the call filled a field inside an object-valued field of the template and
\* replaced the value of another field, and the template object is as before
C29_Witness ==
  /\ Returned
  /\ tmplAfter = tmpl
  /\ \E i, j \in 1..Len(tmpl.k) :
       /\ IsObject(tmpl.v[i])
       /\ IsObject(Get(result, tmpl.k[i]))
       /\ Get(result, tmpl.k[i]) # tmpl.v[i]
       /\ ~IsObject(tmpl.v[j])
       /\ Get(result, tmpl.k[j]) # tmpl.v[j]

\* C27: the gateway's configuration is after any sequence of parseResume
\* calls what it was after construction: the model that the instance will
\* call next is the configured one, whatever earlier requests met.
C27_ConfigurationUnchanged == modelName = ConfiguredModel

\* the models of the calls made, in order
ModelsCalled == [i \in 1..Len(remote) |-> remote[i].model]

\* s is t with some of its elements left out
RECURSIVE InOrder(_, _)
InOrder(s, t) ==
  IF s = <<>> THEN TRUE
  ELSE IF t = <<>> THEN FALSE
  ELSE IF Head(s) = Head(t) THEN InOrder(Tail(s), Tail(t))
  ELSE InOrder(s, Tail(t))

\* C26: Google's parseResume calls the configured model first, then the
\* alternates in their order, each only after the call before it failed, and
\* stops at the first call that resolves; no model is called twice in one
\* parseResume; when the last call failed the request ends with an error,
\* and an answer that is not valid JSON is followed by no further call.
C26_GoogleFallbackOrder ==
  (provider = "google" /\ remote # <<>>) =>
     /\ ModelsCalled[1] = ConfiguredModel
     /\ InOrder(Tail(ModelsCalled), fallbackModels)
     /\ \A i, j \in 1..Len(remote) : i # j => ModelsCalled[i] # ModelsCalled[j]
     /\ \A i \in 1..(Len(remote) - 1) : ~remote[i].resolved
     /\ ~remote[Len(remote)].resolved => err # Null
     /\ err # Null => "parseResume" \in Range(calls) /\ Len(remote) <= Len(fallbackModels) + 1

\* the same on a gateway that is still as it was constructed, with a
\* configured model that is none of the alternates: there the calls are as
\* claimed
FreshDefaultGatewayOrder ==
  (provider = "google" /\ remote # <<>> /\ ModelsCalled[1] = ConfiguredModel
     /\ googleAiModel \notin Range(fallbackModels)) =>
     /\ InOrder(Tail(ModelsCalled), fallbackModels)
     /\ \A i, j \in 1..Len(remote) : i # j => ModelsCalled[i] # ModelsCalled[j]
     /\ \A i \in 1..(Len(remote) - 1) : ~remote[i].resolved
     /\ ~remote[Len(remote)].resolved => err # Null

\* the number of times step s was taken in the request
TimesCalled(s) == Cardinality({i \in 1..Len(calls) : calls[i] = s})

\* C28: in one request the text is extracted at most once and the gateway's
\* parseResume is called at most once; the OpenAI, Anthropic and Azure
\* gateways make at most one remote call; once a step has failed no further
\* step and no further remote call is made in the request, and the request
\* is answered with an error.
C28_SingleAttempt ==
  /\ [](/\ TimesCalled("extractText") <= 1
        /\ TimesCalled("parseResume") <= 1
        /\ provider # "google" => Len(remote) <= 1
        /\ (err # Null /\ hpc = "responded") => ~response.success)
  /\ [][err # Null => (calls' = calls /\ remote' = remote) \/ (err' = Null /\ hpc' = "idle")]_vars

\* a request on an OpenAI gateway whose one remote call failed, answered with
\* an error after extraction and parseResume were each called once
C28_Witness ==
  /\ provider = "openai"
  /\ hpc = "responded"
  /\ TimesCalled("extractText") = 1
  /\ TimesCalled("parseResume") = 1
  /\ Len(remote) = 1
  /\ ~remote[1].resolved
  /\ err # Null
  /\ ~response.success

\* C21: a connection test never raises.  testAIConnection returns false
\* without a call of the model when the gateway is not configured, false
\* when the gateway's call does not complete, and true only when it
\* completed; a provider's testConnection returns false when its call fails.
C21_TestNeverRaises ==
  lastTest.op # "none" =>
     /\ lastTest.outcome.t = "resolved"
     /\ lastTest.op = "testAIConnection" =>
          /\ ~lastTest.configured =>
               (lastTest.outcome = Resolved(FALSE) /\ lastTest.called = <<>>)
          /\ ~lastTest.completed => lastTest.outcome = Resolved(FALSE)
          /\ lastTest.outcome = Resolved(TRUE) =>
               /\ lastTest.completed
               /\ lastTest.called # <<>>
               /\ lastTest.called[Len(lastTest.called)].resolved
     /\ lastTest.op = "testConnection" =>
          /\ ~lastTest.completed => lastTest.outcome = Resolved(FALSE)
          /\ lastTest.outcome = Resolved(TRUE) => lastTest.called[1].resolved

\* a test on a configured Google gateway on which every call of the model
\* failed: four calls, and the test returned false
C21_Witness ==
  /\ lastTest.op = "testAIConnection"
  /\ lastTest.configured
  /\ provider = "google"
  /\ Len(lastTest.called) = Len(fallbackModels) + 1
  /\ ~lastTest.completed
  /\ lastTest.outcome = Resolved(FALSE)
====
